---------------------------- MODULE Spec2Model ----------------------------
(***************************************************************************)
(* Model of the Buchhaltung document lifecycle engine: the ledger store    *)
(* (src/app/database.py), the sequential identifier allocator, the         *)
(* recurring-transaction generator, the request handlers of src/app/app.py *)
(* and the inbox watcher of src/app/auto_processor.py.                     *)
(*                                                                         *)
(* Conventions.  SQL NULL / Python None is modelled per column type:       *)
(* NoDate (0) for dates, NoAmount (-1) for amounts, the string "NULL" for  *)
(* text columns, NoId for invoice_id, NoPath for file_path and 0 for       *)
(* integer references.  Dates are the integers YYYYMMDD, which order as    *)
(* the ISO strings 'YYYY-MM-DD' the code stores and compares.  Amounts are *)
(* integer cents.                                                          *)
(***************************************************************************)
EXTENDS Integers, Sequences, FiniteSets, TLC

VARIABLES
    businesses,      \* rows of table businesses
    invoices,        \* rows of table invoices
    recurring,       \* rows of table recurring_transactions
    files,           \* paths that exist on disk
    nextInvoiceRow,  \* AUTOINCREMENT counter of invoices.id
    nextRecurringRow,\* AUTOINCREMENT counter of recurring_transactions.id
    today,           \* datetime.now().date()
    clock,           \* days elapsed since the model's first day
    calls,           \* number of requests served so far
    threads,         \* local state of the handlers that are in flight
    running,         \* AutoProcessor.running
    nextBusinessRow, \* AUTOINCREMENT counter of businesses
    dropped,         \* number of files put into the inbox so far
    resp             \* the last completed operation and what it returned

vars == <<businesses, invoices, recurring, files, nextInvoiceRow,
          nextRecurringRow, today, clock, calls, threads, running, dropped,
         nextBusinessRow, resp>>

---------------------------------------------------------------------------
(* Bounds of the model *)

\* number of days the clock may advance
Horizon == 1
\* number of requests that run the generator
MaxCalls == 2
\* number of recurring definitions that may be created
MaxDefs == 1
\* concurrent requests
NumCallers == 2
\* files put into the inbox
MaxFiles == 1
\* requests and watcher steps of the lifecycle specification
MaxOps == 2

---------------------------------------------------------------------------
(* NULL values *)

NoDate == 0
NoAmount == 0 - 1
NoId == [kind |-> "NULL", prefix |-> "", year |-> 0, seq |-> 0]
NoName == [fmt |-> "NULL", stem |-> "", date |-> 0, id |-> NoId,
           category |-> "NULL", description |-> "NULL", amount |-> 0 - 1]
NoPath == [root |-> "NULL", biz |-> "", folder |-> "", year |-> 0,
           name |-> NoName, ext |-> "", abs |-> FALSE]

Min(a, b) == IF a <= b THEN a ELSE b

\* the element of a one-element set; The({e(x) : x \in {v}}) is e with x
\* standing for the value of v, computed once
The(S) == CHOOSE x \in S : TRUE

---------------------------------------------------------------------------
(* Calendar: datetime.date, dateutil.relativedelta *)

Year(d) == d \div 10000
Month(d) == (d \div 100) % 100
Day(d) == d % 100
MkDate(y, m, d) == y * 10000 + m * 100 + d

IsLeap(y) == (y % 4 = 0 /\ y % 100 # 0) \/ y % 400 = 0

DaysInMonth(y, m) ==
    IF m = 2 THEN (IF IsLeap(y) THEN 29 ELSE 28)
    ELSE IF m \in {4, 6, 9, 11} THEN 30 ELSE 31

\* d + relativedelta(months=n): the day is clamped to the target month
AddMonths(d, n) ==
    LET t == Year(d) * 12 + (Month(d) - 1) + n
        y == t \div 12
        m == (t % 12) + 1
    IN  MkDate(y, m, Min(Day(d), DaysInMonth(y, m)))

\* d.replace(day=1) + relativedelta(months=1) - timedelta(days=1)
LastDayOfMonth(d) == MkDate(Year(d), Month(d), DaysInMonth(Year(d), Month(d)))

\* d + timedelta(days=1)
NextDay(d) ==
    IF Day(d) < DaysInMonth(Year(d), Month(d)) THEN d + 1
    ELSE IF Month(d) < 12 THEN MkDate(Year(d), Month(d) + 1, 1)
    ELSE MkDate(Year(d) + 1, 1, 1)

---------------------------------------------------------------------------
(* Identifier allocator: Database.get_next_invoice_id / get_next_income_id *)

\* f"{next_number:03d}": the decimal digits, at least three of them
Fmt03(n) ==
    IF n < 1000 THEN <<n \div 100, (n \div 10) % 10, n % 10>>
    ELSE IF n < 10000 THEN <<n \div 1000, (n \div 100) % 10, (n \div 10) % 10, n % 10>>
    ELSE <<n \div 10000, (n \div 1000) % 10, (n \div 100) % 10, (n \div 10) % 10, n % 10>>

\* string order of two digit strings (ORDER BY invoice_id DESC compares text)
RECURSIVE DigitsLess(_, _)
DigitsLess(a, b) ==
    IF a = <<>> THEN b # <<>>
    ELSE IF b = <<>> THEN FALSE
    ELSE IF Head(a) # Head(b) THEN Head(a) < Head(b)
    ELSE DigitsLess(Tail(a), Tail(b))

\* int(result['invoice_id'][-3:])
LastThree(n) == n % 1000

\* prefix = f"-{business['prefix']}-" when the business row exists, else ""
BusinessPrefix(bizs, business_id) ==
    IF business_id # 0 /\ \E b \in bizs : b.id = business_id
    THEN (CHOOSE b \in bizs : b.id = business_id).prefix
    ELSE ""

\* the identifier f"{kind}{prefix}{year}{n:03d}"
MakeId(kind, prefix, year, n) ==
    [kind |-> kind, prefix |-> prefix, year |-> year, seq |-> n]

\* rows WHERE invoice_id LIKE f'{kind}{prefix}{year}%'
MatchingSeqs(invs, kind, prefix, year) ==
    {i.invoice_id.seq : i \in {j \in invs : /\ j.invoice_id.kind = kind
                                             /\ j.invoice_id.prefix = prefix
                                             /\ j.invoice_id.year = year}}

\* the while True loop: the first number from n on whose identifier no row holds
FirstFreeFrom(invs, kind, prefix, year, n) ==
    LET used == {j.invoice_id.seq : j \in {i \in invs : i.invoice_id.kind = kind /\ i.invoice_id.prefix = prefix /\ i.invoice_id.year = year}}
        top == n + Cardinality(used)
    IN  CHOOSE k \in n..top : k \notin used /\ \A m \in n..(k - 1) : m \in used

\* an allocator that takes the first free number from 1 on
GetNextId_SmallestFree(kind, invs, bizs, year, business_id) ==
    LET prefix == BusinessPrefix(bizs, business_id)
    IN  MakeId(kind, prefix, year, FirstFreeFrom(invs, kind, prefix, year, 1))

\* the body shared by get_next_invoice_id (kind ARE) and get_next_income_id
\* (kind ERE)
GetNextId(kind, invs, bizs, year, business_id) ==
    LET prefix == BusinessPrefix(bizs, business_id)
        seqs == MatchingSeqs(invs, kind, prefix, year)
        last == CHOOSE s \in seqs : \A t \in seqs : t = s \/ DigitsLess(Fmt03(t), Fmt03(s))
        next_number == IF seqs # {} THEN LastThree(last) + 1 ELSE 1
    IN  MakeId(kind, prefix, year, FirstFreeFrom(invs, kind, prefix, year, next_number))

get_next_invoice_id(invs, bizs, year, business_id) ==
    GetNextId("ARE", invs, bizs, year, business_id)

get_next_income_id(invs, bizs, year, business_id) ==
    GetNextId("ERE", invs, bizs, year, business_id)

---------------------------------------------------------------------------
(* Ledger store rows and paths *)

\* a row of invoices with the column defaults of the schema
NewInvoiceRow(id) ==
    [id |-> id, business_id |-> 0, file_path |-> NoPath, invoice_id |-> NoId,
     date |-> NoDate, amount |-> NoAmount, category |-> "NULL",
     description |-> "NULL", ocr_text |-> "NULL", reviewed |-> FALSE,
     processed |-> FALSE, is_archived |-> FALSE,
     recurring_transaction_id |-> 0, is_recurring_generated |-> FALSE,
     is_placeholder_pdf |-> FALSE]

GetBusiness(bizs, business_id) == {b \in bizs : b.id = business_id}

\* 'Einnahmen' for an ERE identifier (or income type), else 'Ausgaben'
TypeFolder(is_income) == IF is_income THEN "Einnahmen" ELSE "Ausgaben"

\* where a stored path points on disk when it is resolved under BASE_DIR
OnDisk(p) == [p EXCEPT !.abs = TRUE]

\* f"{date_str}_{id}_{category_safe}_{description_safe}_{amount_safe}" with the
\* amount written f"{float(amount):.2f}"
CanonicalName(date, id, category, description, amount) ==
    [fmt |-> "canonical", stem |-> "", date |-> date, id |-> id,
     category |-> category, description |-> description, amount |-> amount]

\* the rows of a set in ascending id order
RECURSIVE RowsById(_)
RowsById(rows) ==
    IF rows = {} THEN <<>>
    ELSE LET r == CHOOSE x \in rows : \A y \in rows : x.id <= y.id
         IN  <<r>> \o RowsById(rows \ {r})

---------------------------------------------------------------------------
(* Schedule generator: Database.generate_recurring_transactions *)

max_iterations == 1000

\* the step with every unknown frequency treated as monthly
AdvanceByFrequency_UnknownMonthly(frequency, d) ==
    IF frequency = "quarterly" THEN AddMonths(d, 3)
    ELSE IF frequency = "yearly" THEN AddMonths(d, 12)
    ELSE AddMonths(d, 1)

\* current_date + relativedelta(...) by frequency; any other frequency
\* leaves current_date as it is
AdvanceByFrequency(frequency, d) ==
    IF frequency = "monthly" THEN AddMonths(d, 1)
    ELSE IF frequency = "quarterly" THEN AddMonths(d, 3)
    ELSE IF frequency = "yearly" THEN AddMonths(d, 12)
    ELSE d

\* the adjustment with a fallback to the first day of the month
AdjustDayOfMonth_FirstDay(d, day_of_month) ==
    IF day_of_month = 0 THEN d
    ELSE IF day_of_month \in 1..DaysInMonth(Year(d), Month(d))
         THEN MkDate(Year(d), Month(d), day_of_month)
         ELSE MkDate(Year(d), Month(d), 1)

\* next_due.replace(day=day_of_month), the month's last day on ValueError
AdjustDayOfMonth(d, day_of_month) ==
    IF day_of_month = 0 THEN d
    ELSE IF day_of_month \in 1..DaysInMonth(Year(d), Month(d))
         THEN MkDate(Year(d), Month(d), day_of_month)
         ELSE LastDayOfMonth(d)

\* the generator without the duplicate check
ExistsOccurrence_Never(invs, recurring_id, d) == FALSE

\* the duplicate check written to look at rows still pending only
ExistsOccurrence_PendingOnly(invs, recurring_id, d) ==
    \E i \in invs : /\ i.recurring_transaction_id = recurring_id
                     /\ i.date = d
                     /\ ~i.is_archived

\* SELECT id FROM invoices WHERE recurring_transaction_id = ? AND date = ?
ExistsOccurrence(invs, recurring_id, d) ==
    \E i \in invs : i.recurring_transaction_id = recurring_id /\ i.date = d

\* the insert without the invoice_id column
VirtualInvoice_NoIdentifier(invs, bizs, id, rec, d) ==
    [NewInvoiceRow(id) EXCEPT
        !.business_id = rec.business_id,
        !.date = d,
        !.amount = rec.amount,
        !.category = rec.category,
        !.description = rec.description,
        !.recurring_transaction_id = rec.id,
        !.is_recurring_generated = TRUE,
        !.is_placeholder_pdf = TRUE]

\* Database._create_virtual_invoice: the row it inserts
VirtualInvoice(invs, bizs, id, rec, d) ==
    [NewInvoiceRow(id) EXCEPT
        !.invoice_id = IF rec.type = "income"
                       THEN get_next_income_id(invs, bizs, Year(d), rec.business_id)
                       ELSE get_next_invoice_id(invs, bizs, Year(d), rec.business_id),
        !.business_id = rec.business_id,
        !.date = d,
        !.amount = rec.amount,
        !.category = rec.category,
        !.description = rec.description,
        !.recurring_transaction_id = rec.id,
        !.is_recurring_generated = TRUE,
        !.is_placeholder_pdf = TRUE]

\* the candidate of one loop iteration: current_date after the frequency
\* step, and next_due after the day-of-month adjustment
NextDue(rec, iterations, current_date) ==
    LET first == iterations = 0 /\ rec.last_generated_date = NoDate
        cur == IF first THEN current_date
               ELSE AdvanceByFrequency(rec.frequency, current_date)
        due == AdjustDayOfMonth(IF first THEN rec.start_date ELSE cur,
                                rec.day_of_month)
    IN  [current_date |-> cur, next_due |-> due]

\* the two break tests of the loop
StopsAt(rec, next_due, now) ==
    next_due > now \/ (rec.end_date # NoDate /\ next_due > rec.end_date)

\* the state of the while loop before its first iteration
LoopStart(rec, invs, nextRow) ==
    [iterations |-> 0,
     current_date |-> IF rec.last_generated_date # NoDate
                      THEN rec.last_generated_date ELSE rec.start_date,
     brk |-> FALSE, last_due |-> NoDate,
     invoices |-> invs, nextRow |-> nextRow, generated |-> <<>>]

\* one iteration of the while loop (nothing once the loop has been left)
LoopBody(rec, bizs, now, st) ==
    IF st.brk THEN st
    ELSE LET c == NextDue(rec, st.iterations, st.current_date)
         IN  IF StopsAt(rec, c.next_due, now)
             THEN [st EXCEPT !.current_date = c.current_date, !.brk = TRUE]
             ELSE LET create == ~ExistsOccurrence(st.invoices, rec.id, c.next_due)
                      row == VirtualInvoice(st.invoices, bizs, st.nextRow, rec, c.next_due)
                  IN  [st EXCEPT
                         !.current_date = c.next_due,
                         !.last_due = c.next_due,
                         !.iterations = @ + 1,
                         !.invoices = IF create THEN @ \cup {row} ELSE @,
                         !.nextRow = IF create THEN @ + 1 ELSE @,
                         !.generated = IF create THEN Append(@, st.nextRow) ELSE @]

\* while iterations < max_iterations: n further iterations
RECURSIVE Iterate(_, _, _, _, _)
Iterate(n, rec, bizs, now, st) ==
    IF n = 0 THEN st
    ELSE The({IF s.brk THEN s
              ELSE IF n = 1 THEN LoopBody(rec, bizs, now, s)
              ELSE Iterate(n - (n \div 2), rec, bizs, now,
                           Iterate(n \div 2, rec, bizs, now, s))
              : s \in {st}})

\* the whole while loop. An iteration after the first reads the counter only
\* to increment it, so once one of them has changed nothing else (the
\* frequency has no branch and the occurrence exists) all the remaining ones
\* do the same and the loop ends, in that state, at the iteration limit
WhileLoop(rec, bizs, now, st0) ==
    The({The({IF /\ ~s2.brk
                 /\ s1.iterations >= 1
                 /\ s2 = [s1 EXCEPT !.iterations = @ + 1]
              THEN [s1 EXCEPT !.iterations = max_iterations]
              ELSE Iterate(max_iterations, rec, bizs, now, st0)
              : s2 \in {LoopBody(rec, bizs, now, s1)}})
         : s1 \in {LoopBody(rec, bizs, now, st0)}})

\* the value written to last_generated_date after the loop
Checkpoint(st) == st.current_date

\* update_recurring_transaction(rec['id'], {'last_generated_date': ...})
SetCheckpoint(recs, recurring_id, d) ==
    {IF r.id = recurring_id THEN [r EXCEPT !.last_generated_date = d] ELSE r
     : r \in recs}

\* the selection without the test of the active flag
RECURSIVE ActiveNewestFirst_All(_)
ActiveNewestFirst_All(recs) ==
    IF recs = {} THEN <<>>
    ELSE LET r == CHOOSE x \in recs : \A y \in recs : x.id >= y.id
         IN  <<r>> \o ActiveNewestFirst_All(recs \ {r})

\* get_recurring_transactions(active_only=True): newest first
RECURSIVE ActiveNewestFirst(_)
ActiveNewestFirst(recs) ==
    LET act == {r \in recs : r.active}
    IN  IF act = {} THEN <<>>
        ELSE LET r == CHOOSE x \in act : \A y \in act : x.id >= y.id
             IN  <<r>> \o ActiveNewestFirst(act \ {r})

\* the for loop over the snapshot of active definitions
RECURSIVE GenerateOver(_, _, _, _)
GenerateOver(snapshot, bizs, now, g) ==
    IF snapshot = <<>> THEN g
    ELSE The({GenerateOver(Tail(snapshot), bizs, now,
                 [invoices |-> st.invoices,
                  nextRow |-> st.nextRow,
                  recurring |-> SetCheckpoint(g.recurring, Head(snapshot).id,
                                              Checkpoint(st)),
                  generated |-> g.generated \o st.generated,
                  processed |-> g.processed @@ (Head(snapshot).id :> st.last_due)])
              : st \in {WhileLoop(Head(snapshot), bizs, now,
                                  LoopStart(Head(snapshot), g.invoices, g.nextRow))}})

generate_recurring_transactions(invs, recs, bizs, nextRow, now) ==
    GenerateOver(ActiveNewestFirst(recs), bizs, now,
                 [invoices |-> invs, nextRow |-> nextRow, recurring |-> recs,
                  generated |-> <<>>, processed |-> <<>>])

---------------------------------------------------------------------------
(* Placeholder pass: generate_missing_placeholders (src/app/app.py) *)

\* WHERE invoice_id IS NOT NULL AND (file_path IS NULL OR file_path = ''
\*        OR NOT EXISTS (SELECT 1 WHERE file_path LIKE '%.pdf'))
NeedsPlaceholder(i) ==
    i.invoice_id # NoId /\ (i.file_path = NoPath \/ i.file_path.ext # "pdf")

\* the relative path Archive/{business}/{type_folder}/{year}/{pdf_filename}
PlaceholderPath(i, b, now) ==
    LET date_obj == IF i.date = NoDate THEN now ELSE i.date
    IN  [root |-> "Archive", biz |-> b.name,
         folder |-> TypeFolder(i.invoice_id.kind = "ERE"),
         year |-> Year(date_obj),
         name |-> CanonicalName(date_obj, i.invoice_id,
                     IF i.category \in {"NULL", ""} THEN "Unknown" ELSE i.category,
                     i.description, i.amount),
         ext |-> "pdf", abs |-> FALSE]

\* file_path is UNIQUE: another row already holds p
PathTaken(invs, id, p) == \E j \in invs : j.id # id /\ j.file_path = p

\* the for loop over the selected rows; renders is the number of rows the
\* renderer still serves before it raises (the except around the loop then
\* ends the pass and returns [])
RECURSIVE PlaceholderLoop(_, _, _, _, _)
PlaceholderLoop(rows, bizs, now, renders, p) ==
    IF rows = <<>> THEN p
    ELSE LET i == Head(rows)
             bs == GetBusiness(bizs, i.business_id)
             b == CHOOSE x \in bs : TRUE
             path == PlaceholderPath(i, b, now)
         IN  IF bs = {} THEN PlaceholderLoop(Tail(rows), bizs, now, renders, p)
             ELSE IF i.description = "NULL" \/ i.amount = NoAmount \/ renders = 0
             THEN [p EXCEPT !.generated = <<>>, !.failed = TRUE]
             ELSE IF PathTaken(p.invoices, i.id, path)
             THEN [p EXCEPT !.files = @ \cup {OnDisk(path)},
                            !.generated = <<>>, !.failed = TRUE]
             ELSE PlaceholderLoop(Tail(rows), bizs, now, renders - 1,
                     [p EXCEPT
                        !.files = @ \cup {OnDisk(path)},
                        !.invoices = (@ \ {i}) \cup
                            {[i EXCEPT !.file_path = path,
                                       !.is_placeholder_pdf = TRUE,
                                       !.is_archived = TRUE]},
                        !.generated = Append(@, i.id)])

generate_missing_placeholders(invs, bizs, fs, now, renders) ==
    PlaceholderLoop(RowsById({i \in invs : NeedsPlaceholder(i)}), bizs, now, renders,
                    [invoices |-> invs, files |-> fs, generated |-> <<>>,
                     failed |-> FALSE])

\* how many rows the renderer may serve in one pass: any number up to all
RenderBudgets(invs) == 0..Cardinality({i \in invs : NeedsPlaceholder(i)})

---------------------------------------------------------------------------
(* Inputs of the recurring-definition requests *)

FirstDay == MkDate(2025, 2, 28)

TheBusiness == [id |-> 1, name |-> "B1", prefix |-> "TB"]

Frequencies == {"monthly", "yearly"}
DaysOfMonth == {1, 31}
StartDates == {MkDate(2025, 1, 1), MkDate(2024, 12, 31)}

RecurringInput(type, frequency, day_of_month, start_date, end_date) ==
    [type |-> type, frequency |-> frequency, day_of_month |-> day_of_month,
     start_date |-> start_date, end_date |-> end_date, business_id |-> 1]

\* open-ended definitions, monthly ones that end on 2025-02-28 or on
\* 2025-03-31, a quarterly one without day of month, an income one, and one
\* with a frequency the generator has no branch for (the request accepts any
\* string)
RecurringInputs ==
    {RecurringInput("expense", f, dom, s, NoDate) :
        f \in Frequencies, dom \in DaysOfMonth, s \in StartDates}
    \cup {RecurringInput("expense", "monthly", dom, MkDate(2025, 1, 1), e) :
             dom \in DaysOfMonth, e \in {MkDate(2025, 2, 28), MkDate(2025, 3, 31)}}
    \cup {RecurringInput("expense", "quarterly", 0, MkDate(2024, 11, 30), NoDate),
          RecurringInput("income", "monthly", 1, MkDate(2025, 1, 1), NoDate),
          RecurringInput("expense", "weekly", 1, MkDate(2025, 1, 1), NoDate)}

\* Database.create_recurring_transaction: the row it inserts
RecurringRow(id, data) ==
    [id |-> id, business_id |-> data.business_id, type |-> data.type,
     description |-> "Miete", amount |-> 85000, category |-> "Raum",
     frequency |-> data.frequency, day_of_month |-> data.day_of_month,
     start_date |-> data.start_date, end_date |-> data.end_date,
     active |-> TRUE, last_generated_date |-> NoDate]

---------------------------------------------------------------------------
(* Scheduler specification: the clock and the requests that run the       *)
(* generator one after the other                                           *)

SchedInit ==
    /\ businesses = {TheBusiness}
    /\ nextBusinessRow = 2
    /\ invoices = {}
    /\ recurring = {}
    /\ files = {}
    /\ nextInvoiceRow = 1
    /\ nextRecurringRow = 1
    /\ today = FirstDay
    /\ clock = 0
    /\ calls = 0
    /\ threads = <<>>
    /\ running = TRUE
    /\ dropped = 0
    /\ resp = [op |-> "init", after |-> "init"]

\* time passes between two requests: a day, or two months
Tick ==
    /\ clock < Horizon
    /\ clock' = clock + 1
    /\ today' \in {NextDay(today), AddMonths(today, 2)}
    /\ resp' = [op |-> "tick", after |-> resp.op]
    /\ UNCHANGED <<dropped, running, businesses, nextBusinessRow, invoices, recurring, files, nextInvoiceRow,
                   nextRecurringRow, calls, threads>>

\* POST /api/recurring: create_recurring_transaction
CreateRecurring(data) ==
    /\ nextRecurringRow <= MaxDefs
    /\ calls < MaxCalls
    /\ \E g \in {generate_recurring_transactions(
                    invoices, recurring \cup {RecurringRow(nextRecurringRow, data)},
                    businesses, nextInvoiceRow, today)} :
         \E renders \in RenderBudgets(g.invoices) :
           \E p \in {IF g.generated # <<>>
                     THEN generate_missing_placeholders(g.invoices, businesses,
                                                        files, today, renders)
                     ELSE [invoices |-> g.invoices, files |-> files,
                           generated |-> <<>>, failed |-> FALSE]} :
              /\ invoices' = p.invoices
              /\ files' = p.files
              /\ recurring' = g.recurring
              /\ nextInvoiceRow' = g.nextRow
              /\ resp' = [op |-> "create_recurring", after |-> resp.op,
                          ids |-> g.generated, processed |-> g.processed]
    /\ nextRecurringRow' = nextRecurringRow + 1
    /\ calls' = calls + 1
    /\ UNCHANGED <<dropped, running, businesses, nextBusinessRow, today, clock, threads>>

\* POST /api/recurring/generate: generate_recurring
GenerateNow ==
    /\ calls < MaxCalls
    /\ \E g \in {generate_recurring_transactions(invoices, recurring, businesses,
                                                  nextInvoiceRow, today)} :
           /\ invoices' = g.invoices
           /\ recurring' = g.recurring
           /\ nextInvoiceRow' = g.nextRow
           /\ resp' = [op |-> "generate", after |-> resp.op,
                       ids |-> g.generated, processed |-> g.processed]
    /\ calls' = calls + 1
    /\ UNCHANGED <<dropped, running, businesses, nextBusinessRow, files, nextRecurringRow, today, clock, threads>>

\* application start: the generator, then the placeholder pass
Startup ==
    /\ calls < MaxCalls
    /\ \E g \in {generate_recurring_transactions(invoices, recurring, businesses,
                                                  nextInvoiceRow, today)} :
         \E renders \in RenderBudgets(g.invoices) :
           \E p \in {generate_missing_placeholders(g.invoices, businesses,
                                                   files, today, renders)} :
              /\ invoices' = p.invoices
              /\ files' = p.files
              /\ recurring' = g.recurring
              /\ nextInvoiceRow' = g.nextRow
              /\ resp' = [op |-> "startup", after |-> resp.op,
                          ids |-> g.generated, processed |-> g.processed]
    /\ calls' = calls + 1
    /\ UNCHANGED <<dropped, running, businesses, nextBusinessRow, nextRecurringRow, today, clock, threads>>

SchedNext ==
    \/ Tick
    \/ \E data \in RecurringInputs : CreateRecurring(data)
    \/ GenerateNow
    \/ Startup

SpecSched == SchedInit /\ [][SchedNext]_vars

---------------------------------------------------------------------------
(* Properties of the schedule generator *)

\* the operations that run generate_recurring_transactions
GenOps == {"create_recurring", "generate", "startup"}

\* the schedule of a definition up to a day: the start date on the target
\* day of month, then one frequency step after the other, each on the target
\* day of month, while neither the day nor the end date is passed
RECURSIVE ScheduledFrom(_, _, _)
ScheduledFrom(rec, d, now) ==
    IF StopsAt(rec, d, now) THEN {}
    ELSE LET n == AdjustDayOfMonth(AdvanceByFrequency(rec.frequency, d),
                                   rec.day_of_month)
         IN  IF n = d THEN {d} ELSE {d} \cup ScheduledFrom(rec, n, now)

Scheduled(rec, now) ==
    ScheduledFrom(rec, AdjustDayOfMonth(rec.start_date, rec.day_of_month), now)

\* C4: once a generator invocation has completed, every scheduled occurrence
\* of every active definition that is due (not after today, not after the
\* end date) has a materialized record
C4_EveryDueOccurrenceMaterialized ==
    resp.op \in GenOps =>
        \A r \in recurring : r.active =>
            \A d \in Scheduled(r, today) : ExistsOccurrence(invoices, r.id, d)

\* C5: after a generator invocation the stored last_generated_date of a
\* definition is the date of the last occurrence the pass processed, not
\* after today and not after the end date, and a second invocation on the
\* same day leaves it as it is
C5_CheckpointIsLastProcessed ==
    [][/\ resp'.op \in GenOps =>
            \A r \in recurring' :
                (r.id \in DOMAIN resp'.processed /\ resp'.processed[r.id] # NoDate) =>
                    /\ r.last_generated_date = resp'.processed[r.id]
                    /\ r.last_generated_date <= today'
                    /\ r.end_date # NoDate => r.last_generated_date <= r.end_date
       /\ (resp.op \in GenOps /\ resp'.op \in GenOps) =>
            \A r \in recurring : \A r2 \in recurring' :
                r2.id = r.id => r2.last_generated_date = r.last_generated_date
      ]_vars

\* C6: a generator invocation that directly follows another one, on the same
\* day and with the same definitions, returns an empty list and leaves the
\* set of records as the first one left it
C6_SecondCallCreatesNothing ==
    [][(resp.op \in GenOps /\ resp'.op \in {"generate", "startup"}) =>
            /\ resp'.ids = <<>>
            /\ nextInvoiceRow' = nextInvoiceRow
            /\ {i.id : i \in invoices'} = {i.id : i \in invoices}
            /\ resp'.op = "generate" => invoices' = invoices
      ]_vars

\* a second invocation has run right after one that had left records
C6_Witness ==
    /\ resp.op = "generate"
    /\ resp.after \in GenOps
    /\ resp.ids = <<>>
    /\ \E i \in invoices : i.is_recurring_generated

---------------------------------------------------------------------------
(* Concurrent generator specification: requests served by different       *)
(* threads, each running generate_recurring_transactions statement by     *)
(* statement; a step is one access to the database with the local         *)
(* computation that leads to it                                            *)

Callers == 1..NumCallers

\* the definitions whose frequency the generator has a branch for
ConcInputs == {d \in RecurringInputs : AdvanceByFrequency(d.frequency, d.start_date) # d.start_date}

NoRec == [id |-> 0]
NoRow == [id |-> 0]

\* the local variables of a request that has not started
IdleCaller ==
    [pc |-> "idle", op |-> "none", snapshot |-> <<>>, rec |-> NoRec,
     iterations |-> 0, current_date |-> NoDate, next_due |-> NoDate,
     row |-> NoRow, generated_ids |-> <<>>]

ConcInit ==
    /\ businesses = {TheBusiness}
    /\ nextBusinessRow = 2
    /\ invoices = {}
    /\ recurring = {}
    /\ files = {}
    /\ nextInvoiceRow = 1
    /\ nextRecurringRow = 1
    /\ today = FirstDay
    /\ clock = 0
    /\ calls = 0
    /\ threads = [t \in Callers |-> IdleCaller]
    /\ running = TRUE
    /\ dropped = 0
    /\ resp = [op |-> "init", after |-> "init"]

\* POST /api/recurring arrives: db.create_recurring_transaction(data)
CallCreate(t, data) ==
    /\ threads[t].pc = "idle"
    /\ nextRecurringRow <= MaxDefs
    /\ recurring' = recurring \cup {RecurringRow(nextRecurringRow, data)}
    /\ nextRecurringRow' = nextRecurringRow + 1
    /\ threads' = [threads EXCEPT ![t] = [@ EXCEPT !.pc = "select",
                                                   !.op = "create_recurring"]]
    /\ UNCHANGED <<dropped, running, businesses, nextBusinessRow, invoices, files, nextInvoiceRow, today, clock,
                   calls, resp>>

\* POST /api/recurring/generate arrives
CallGenerate(t) ==
    /\ threads[t].pc = "idle"
    /\ threads' = [threads EXCEPT ![t] = [@ EXCEPT !.pc = "select",
                                                   !.op = "generate"]]
    /\ UNCHANGED <<dropped, running, businesses, nextBusinessRow, invoices, recurring, files, nextInvoiceRow,
                   nextRecurringRow, today, clock, calls, resp>>

\* recurring = self.get_recurring_transactions(active_only=True)
SelectActive(t) ==
    /\ threads[t].pc = "select"
    /\ threads' = [threads EXCEPT ![t] = [@ EXCEPT
                        !.pc = "rec",
                        !.snapshot = ActiveNewestFirst(recurring),
                        !.generated_ids = <<>>]]
    /\ UNCHANGED <<dropped, running, businesses, nextBusinessRow, invoices, recurring, files, nextInvoiceRow,
                   nextRecurringRow, today, clock, calls, resp>>

\* for rec in recurring: the starting point of the next definition
NextRec(t) ==
    /\ threads[t].pc = "rec"
    /\ LET me == threads[t]
           st == LoopStart(Head(me.snapshot), {}, 0)
       IN  threads' = [threads EXCEPT ![t] =
               IF me.snapshot = <<>> THEN [me EXCEPT !.pc = "finish"]
               ELSE [me EXCEPT !.pc = "iter",
                               !.rec = Head(me.snapshot),
                               !.iterations = st.iterations,
                               !.current_date = st.current_date]]
    /\ UNCHANGED <<dropped, running, businesses, nextBusinessRow, invoices, recurring, files, nextInvoiceRow,
                   nextRecurringRow, today, clock, calls, resp>>

\* one pass through the loop head: the candidate, the two break tests and
\* the query for an existing record of the candidate
IterCheck(t) ==
    /\ threads[t].pc = "iter"
    /\ LET me == threads[t]
           c == NextDue(me.rec, me.iterations, me.current_date)
       IN  threads' = [threads EXCEPT ![t] =
               IF me.iterations >= max_iterations
               THEN [me EXCEPT !.pc = "checkpoint"]
               ELSE IF StopsAt(me.rec, c.next_due, today)
               THEN [me EXCEPT !.pc = "checkpoint",
                               !.current_date = c.current_date]
               ELSE IF ExistsOccurrence(invoices, me.rec.id, c.next_due)
               THEN [me EXCEPT !.current_date = c.next_due,
                               !.iterations = me.iterations + 1]
               ELSE [me EXCEPT !.pc = "alloc",
                               !.current_date = c.current_date,
                               !.next_due = c.next_due]]
    /\ UNCHANGED <<dropped, running, businesses, nextBusinessRow, invoices, recurring, files, nextInvoiceRow,
                   nextRecurringRow, today, clock, calls, resp>>

\* _create_virtual_invoice: the identifier from the allocator
AllocateVirtual(t) ==
    /\ threads[t].pc = "alloc"
    /\ LET me == threads[t]
       IN  threads' = [threads EXCEPT ![t] =
               [me EXCEPT !.pc = "insert",
                          !.row = VirtualInvoice(invoices, businesses, 0, me.rec,
                                                 me.next_due)]]
    /\ UNCHANGED <<dropped, running, businesses, nextBusinessRow, invoices, recurring, files, nextInvoiceRow,
                   nextRecurringRow, today, clock, calls, resp>>

\* _create_virtual_invoice: INSERT INTO invoices and commit, then the end of
\* the loop body
InsertVirtual(t) ==
    /\ threads[t].pc = "insert"
    /\ invoices' = invoices \cup {[threads[t].row EXCEPT !.id = nextInvoiceRow]}
    /\ nextInvoiceRow' = nextInvoiceRow + 1
    /\ LET me == threads[t]
       IN  threads' = [threads EXCEPT ![t] =
               [me EXCEPT !.pc = "iter",
                          !.row = NoRow,
                          !.generated_ids = Append(me.generated_ids, nextInvoiceRow),
                          !.current_date = me.next_due,
                          !.iterations = me.iterations + 1]]
    /\ UNCHANGED <<dropped, running, businesses, nextBusinessRow, recurring, files, nextRecurringRow, today, clock,
                   calls, resp>>

\* update_recurring_transaction(rec['id'], {'last_generated_date': ...})
StoreCheckpoint(t) ==
    /\ threads[t].pc = "checkpoint"
    /\ recurring' = SetCheckpoint(recurring, threads[t].rec.id,
                                  threads[t].current_date)
    /\ threads' = [threads EXCEPT ![t] =
            [@ EXCEPT !.pc = "rec", !.snapshot = Tail(threads[t].snapshot)]]
    /\ UNCHANGED <<dropped, running, businesses, nextBusinessRow, invoices, files, nextInvoiceRow, nextRecurringRow,
                   today, clock, calls, resp>>

\* the generator has returned: the create request runs the placeholder pass
\* when anything was generated, then the response is sent
Finish(t) ==
    /\ threads[t].pc = "finish"
    /\ \E renders \in RenderBudgets(invoices) :
         \E p \in {IF threads[t].op = "create_recurring"
                      /\ threads[t].generated_ids # <<>>
                   THEN generate_missing_placeholders(invoices, businesses, files,
                                                      today, renders)
                   ELSE [invoices |-> invoices, files |-> files,
                         generated |-> <<>>, failed |-> FALSE]} :
            /\ invoices' = p.invoices
            /\ files' = p.files
    /\ resp' = [op |-> threads[t].op, after |-> resp.op,
                ids |-> threads[t].generated_ids, processed |-> <<>>]
    /\ threads' = [threads EXCEPT ![t] = [@ EXCEPT !.pc = "done"]]
    /\ UNCHANGED <<dropped, running, businesses, nextBusinessRow, recurring, nextInvoiceRow, nextRecurringRow,
                   today, clock, calls>>

ConcNext ==
    \E t \in Callers :
        \/ \E data \in ConcInputs : CallCreate(t, data)
        \/ CallGenerate(t)
        \/ SelectActive(t)
        \/ NextRec(t)
        \/ IterCheck(t)
        \/ AllocateVirtual(t)
        \/ InsertVirtual(t)
        \/ StoreCheckpoint(t)
        \/ Finish(t)

SpecSchedConc == ConcInit /\ [][ConcNext]_vars

\* C7: no two records exist for the same recurring definition and the same
\* occurrence date
C7_OneRecordPerOccurrence ==
    \A i \in invoices : \A j \in invoices :
        (/\ i.recurring_transaction_id # 0
         /\ i.recurring_transaction_id = j.recurring_transaction_id
         /\ i.date = j.date) => i.id = j.id

---------------------------------------------------------------------------
(* Lifecycle engine: paths, extraction results and the watcher's          *)
(* _auto_process_file (src/app/auto_processor.py)                          *)

\* suffixes of ImageConverter.is_image among those the inbox scan accepts
ImageExts == {"jpg"}

\* a file of the inbox folder of a business: BASE_DIR/Inbox/{name}/{folder}
InboxFile(biz, folder, stem, ext) ==
    [root |-> "Inbox", biz |-> biz, folder |-> folder, year |-> 0,
     name |-> [NoName EXCEPT !.fmt = "original", !.stem = stem],
     ext |-> ext, abs |-> TRUE]

\* '/Inbox/' in str(path), '/Archive/' in path: a relative path
\* 'Archive/...' has no slash in front and does not match
InInbox(p) == p # NoPath /\ p.abs /\ p.root = "Inbox"
InArchive(p) == p # NoPath /\ p.abs /\ p.root = "Archive"

\* Path(p).exists() for a stored path: a relative one is looked up under
\* the working directory of the process, which is not BASE_DIR
PathExists(fs, p) == p # NoPath /\ p.abs /\ p \in fs

\* generate_invoice_filename: f"{date}_{invoice_id}{ext}"
MinimalName(date, id) ==
    [NoName EXCEPT !.fmt = "minimal", !.date = date, !.id = id]

\* BASE_DIR / 'Archive' / business / type_folder / str(year) / filename
ArchivePath(biz, folder, year, name, ext) ==
    [root |-> "Archive", biz |-> biz, folder |-> folder, year |-> year,
     name |-> name, ext |-> ext, abs |-> TRUE]

\* Python truth of a column value: None, 0 and '' are false
TruthyDate(d) == d # NoDate
TruthyAmount(a) == a # NoAmount /\ a # 0
TruthyText(x) == x \notin {"NULL", ""}

\* what the extraction collaborator may return; "raise" is a call that fails
Extraction(text, date, amount, category, description) ==
    [text |-> text, date |-> date, amount |-> amount, category |-> category,
     description |-> description]

Results ==
    {Extraction("ocr", MkDate(2025, 2, 10), 1250, "Buero", "Beleg"),
     Extraction("ocr", MkDate(2025, 2, 10), 1250, "NULL", "Beleg"),
     Extraction("ocr", MkDate(2025, 2, 10), 1250, "", "NULL"),
     Extraction("ocr", MkDate(2025, 2, 10), 0, "Buero", "Beleg"),
     Extraction("", NoDate, NoAmount, "NULL", "NULL"),
     [text |-> "raise"]}

HasRequiredFields_NoCategory(result) ==
    TruthyDate(result.date) /\ TruthyAmount(result.amount)

\* result.get('date') and result.get('amount') and result.get('category')
HasRequiredFields(result) ==
    TruthyDate(result.date) /\ TruthyAmount(result.amount) /\ TruthyText(result.category)

\* the value of that expression is None when the first false operand is None
RequiredFieldsIsNone(result) ==
    \/ result.date = NoDate
    \/ TruthyDate(result.date) /\ result.amount = NoAmount
    \/ TruthyDate(result.date) /\ TruthyAmount(result.amount) /\ result.category = "NULL"

RowOf(invs, id) == CHOOSE i \in invs : i.id = id
HasRow(invs, id) == \E i \in invs : i.id = id
SetRow(invs, row) == {i \in invs : i.id # row.id} \cup {row}

\* Database.update_ocr_results
UpdateOcrResults(row, result) ==
    [row EXCEPT !.ocr_text = result.text, !.date = result.date,
                !.amount = result.amount, !.category = result.category,
                !.description = result.description]

\* the except of _auto_process_file: processed, not reviewed
MarkFailed(row) == [row EXCEPT !.processed = TRUE, !.reviewed = FALSE]

\* AutoProcessor._auto_process_file up to the decision to archive (steps 1
\* to 4) for the row id; conv_ok says whether the image conversion succeeds.
\* complete is has_required_fields, cur is file_info['file_path']
AutoProcessExtract(invs, fs, id, result, conv_ok) ==
    LET r0 == RowOf(invs, id)
        is_image == r0.file_path.ext \in ImageExts
        pdf_path == [r0.file_path EXCEPT !.ext = "pdf"]
        fs1 == IF is_image /\ conv_ok
               THEN (fs \ {r0.file_path}) \cup {pdf_path} ELSE fs
        r1 == IF is_image
              THEN [r0 EXCEPT !.file_path = pdf_path, !.invoice_id = NoId,
                              !.processed = TRUE]
              ELSE r0
        r2 == UpdateOcrResults(r1, result)
        r3 == [r2 EXCEPT !.reviewed = IF RequiredFieldsIsNone(result)
                                      THEN @ ELSE HasRequiredFields(result),
                         !.processed = TRUE]
        failed(row, files_now) ==
            [invoices |-> SetRow(invs, MarkFailed(row)), files |-> files_now,
             extracted |-> FALSE, complete |-> FALSE, cur |-> NoPath]
    IN  IF is_image /\ ~conv_ok THEN failed(r0, fs)
        ELSE IF is_image /\ PathTaken(invs, id, pdf_path) THEN failed(r0, fs1)
        ELSE IF result.text = "raise" THEN failed(r1, fs1)
        ELSE [invoices |-> SetRow(invs, r3), files |-> fs1, extracted |-> TRUE,
              complete |-> HasRequiredFields(result), cur |-> r1.file_path]

\* the allocation of step 5: get_next_income_id for the folder Einnahmen,
\* get_next_invoice_id otherwise
AutoProcessAllocate(invs, bizs, b, folder, result) ==
    IF folder = "Einnahmen"
    THEN get_next_income_id(invs, bizs, Year(result.date), b.id)
    ELSE get_next_invoice_id(invs, bizs, Year(result.date), b.id)

AutoProcessArchive_ArchivedAnyway(invs, fs, b, id, folder, result, cur, next_id, move_ok) ==
    LET r4 == [RowOf(invs, id) EXCEPT !.invoice_id = next_id]
        target == ArchivePath(b.name, TypeFolder(folder = "Einnahmen"),
                              Year(result.date),
                              MinimalName(result.date, next_id), cur.ext)
        fs2 == IF move_ok THEN (fs \ {cur}) \cup {target} ELSE fs
    IN  IF ~HasRow(invs, id) THEN [invoices |-> invs, files |-> fs]
        ELSE IF ~(PathExists(fs, cur) /\ InInbox(cur))
        THEN [invoices |-> SetRow(invs, r4), files |-> fs]
        ELSE IF PathTaken(invs, id, target)
        THEN [invoices |-> SetRow(invs, r4), files |-> fs2]
        ELSE [invoices |-> SetRow(invs, [r4 EXCEPT !.file_path = target,
                                                  !.is_archived = TRUE]),
              files |-> fs2]

\* the rest of step 5: write the identifier, move the file to the archive
\* and store the new path; move_ok says whether shutil.move succeeds
AutoProcessArchive(invs, fs, b, id, folder, result, cur, next_id, move_ok) ==
    LET r4 == [RowOf(invs, id) EXCEPT !.invoice_id = next_id]
        target == ArchivePath(b.name, TypeFolder(folder = "Einnahmen"),
                              Year(result.date),
                              MinimalName(result.date, next_id), cur.ext)
        fs2 == (fs \ {cur}) \cup {target}
    IN  IF ~HasRow(invs, id) THEN [invoices |-> invs, files |-> fs]
        ELSE IF ~(PathExists(fs, cur) /\ InInbox(cur)) \/ ~move_ok
        THEN [invoices |-> SetRow(invs, r4), files |-> fs]
        ELSE IF PathTaken(invs, id, target)
        THEN [invoices |-> SetRow(invs, r4), files |-> fs2]
        ELSE [invoices |-> SetRow(invs, [r4 EXCEPT !.file_path = target,
                                                  !.is_archived = TRUE]),
              files |-> fs2]

\* AutoProcessor._auto_process_file for the row id of business b, found in
\* the inbox folder `folder`
AutoProcessFile(invs, fs, bizs, b, id, folder, result, conv_ok, move_ok) ==
    IF ~HasRow(invs, id)
    THEN [invoices |-> invs, files |-> fs, extracted |-> FALSE]
    ELSE The({IF ~e.complete
              THEN [invoices |-> e.invoices, files |-> e.files,
                    extracted |-> e.extracted]
              ELSE The({[invoices |-> a.invoices, files |-> a.files,
                         extracted |-> TRUE]
                        : a \in {AutoProcessArchive(e.invoices, e.files, b, id,
                                    folder, result, e.cur,
                                    AutoProcessAllocate(e.invoices, bizs, b,
                                                        folder, result),
                                    move_ok)}})
              : e \in {AutoProcessExtract(invs, fs, id, result, conv_ok)}})

\* the JSON body of a save request; NoDate, NoAmount and "NULL" stand for
\* a key that is absent, flags holds the status keys that are present
SaveData(date, amount, category, description, flags) ==
    [date |-> date, amount |-> amount, category |-> category,
     description |-> description, flags |-> flags]

HasFlag(data, k) == \E f \in data.flags : f[1] = k
FlagOf(data, k) == (CHOOSE f \in data.flags : f[1] = k)[2]

\* the filename of rename_archived_file and of an upload to an archived
\* record: the amount is written str(amount), which differs from the
\* two-decimal form when the amount has fewer than two decimals
RenamedName(date, id, category, description, amount) ==
    [CanonicalName(date, id, category, description, amount) EXCEPT
        !.fmt = IF amount % 10 = 0 THEN "short_amount" ELSE @]

\* Database.rename_archived_file: path is NoPath for a None result
RenameArchivedFile(fs, bizs, old, data, move_ok) ==
    LET none == [path |-> NoPath, files |-> fs, raised |-> FALSE]
        date == IF data.date # NoDate THEN data.date ELSE old.date
        description == IF data.description # "NULL" THEN data.description
                       ELSE old.description
        new_path == [old.file_path EXCEPT !.name =
                        RenamedName(date, old.invoice_id, data.category,
                                    description, data.amount)]
    IN  IF ~old.is_archived \/ ~InArchive(old.file_path) THEN none
        ELSE IF ~PathExists(fs, old.file_path) THEN none
        ELSE IF GetBusiness(bizs, old.business_id) = {} THEN none
        ELSE IF ~TruthyDate(date) \/ old.invoice_id = NoId THEN none
        ELSE IF description = "NULL" THEN [none EXCEPT !.raised = TRUE]
        ELSE IF new_path = old.file_path \/ ~move_ok THEN none
        ELSE [path |-> new_path,
              files |-> (fs \ {old.file_path}) \cup {new_path},
              raised |-> FALSE]

\* the archive block with a failed move that takes the identifier back
ArchiveAfterSave_FreesIdentifier(invs, fs, bizs, file_info, data, next_id, folder, render_ok, move_ok) ==
    LET cur == file_info.file_path
        is_virtual == cur.ext = "virtual"
        bs == GetBusiness(bizs, file_info.business_id)
        b == CHOOSE x \in bs : TRUE
        description == IF data.description = "NULL" THEN "" ELSE data.description
        archive_path == ArchivePath(b.name, folder, Year(data.date),
                            CanonicalName(data.date, next_id, data.category,
                                          description, data.amount), "pdf")
        missing == is_virtual \/ ~PathExists(fs, cur)
        fs1 == IF missing THEN fs \cup {archive_path}
               ELSE IF InInbox(cur) THEN (fs \ {cur}) \cup {archive_path}
               ELSE fs
        gone == is_virtual \/ ~PathExists(fs1, cur)
        row == RowOf(invs, file_info.id)
    IN  IF cur = NoPath \/ bs = {} THEN [invoices |-> invs, files |-> fs]
        ELSE IF missing /\ ~render_ok THEN [invoices |-> invs, files |-> fs]
        ELSE IF ~missing /\ InInbox(cur) /\ ~move_ok
        THEN [invoices |-> SetRow(invs, [row EXCEPT !.invoice_id = NoId]),
              files |-> fs]
        ELSE IF PathTaken(invs, file_info.id, archive_path)
        THEN [invoices |-> invs, files |-> fs1]
        ELSE [invoices |-> SetRow(invs,
                  [row EXCEPT !.file_path = archive_path, !.is_archived = TRUE,
                              !.is_placeholder_pdf = IF gone THEN TRUE ELSE @]),
              files |-> fs1]

\* the "Move file to Archive" block that ends update_invoice and update_income
ArchiveAfterSave(invs, fs, bizs, file_info, data, next_id, folder, render_ok, move_ok) ==
    LET cur == file_info.file_path
        is_virtual == cur.ext = "virtual"
        bs == GetBusiness(bizs, file_info.business_id)
        b == CHOOSE x \in bs : TRUE
        description == IF data.description = "NULL" THEN "" ELSE data.description
        archive_path == ArchivePath(b.name, folder, Year(data.date),
                            CanonicalName(data.date, next_id, data.category,
                                          description, data.amount), "pdf")
        missing == is_virtual \/ ~PathExists(fs, cur)
        fs1 == IF missing THEN fs \cup {archive_path}
               ELSE IF InInbox(cur) THEN (fs \ {cur}) \cup {archive_path}
               ELSE fs
        gone == is_virtual \/ ~PathExists(fs1, cur)
        row == RowOf(invs, file_info.id)
    IN  IF cur = NoPath \/ bs = {} THEN [invoices |-> invs, files |-> fs]
        ELSE IF missing /\ ~render_ok THEN [invoices |-> invs, files |-> fs]
        ELSE IF ~missing /\ InInbox(cur) /\ ~move_ok
        THEN [invoices |-> invs, files |-> fs]
        ELSE IF PathTaken(invs, file_info.id, archive_path)
        THEN [invoices |-> invs, files |-> fs1]
        ELSE [invoices |-> SetRow(invs,
                  [row EXCEPT !.file_path = archive_path, !.is_archived = TRUE,
                              !.is_placeholder_pdf = IF gone THEN TRUE ELSE @]),
              files |-> fs1]

\* POST /api/invoice/<id>: update_invoice up to the end of a partial update:
\* the rename, the first db.update_invoice; full says a full update goes on
UpdateInvoiceFields(invs, fs, bizs, id, data, move_ok) ==
    LET file_info == RowOf(invs, id)
        is_updating_archived == file_info.is_archived /\ InArchive(file_info.file_path)
        is_bulk_update == ~(TruthyDate(data.date) /\ TruthyAmount(data.amount)
                            /\ TruthyText(data.category))
        rn == IF is_updating_archived /\ ~is_bulk_update
              THEN RenameArchivedFile(fs, bizs, file_info, data, move_ok)
              ELSE [path |-> NoPath, files |-> fs, raised |-> FALSE]
        r1 == [file_info EXCEPT
                 !.date = IF TruthyDate(data.date) THEN data.date ELSE @,
                 !.amount = IF data.amount # NoAmount THEN data.amount ELSE @,
                 !.category = IF TruthyText(data.category) THEN data.category ELSE @,
                 !.description = IF data.description # "NULL"
                                 THEN data.description ELSE @,
                 !.reviewed = IF HasFlag(data, "reviewed") THEN FlagOf(data, "reviewed")
                              ELSE IF ~is_bulk_update THEN TRUE ELSE @,
                 !.is_archived = IF HasFlag(data, "is_archived")
                                 THEN FlagOf(data, "is_archived") ELSE @,
                 !.processed = IF ~is_bulk_update THEN TRUE ELSE @,
                 !.file_path = IF rn.path # NoPath THEN rn.path ELSE @]
        same(status) == [invoices |-> invs, files |-> fs, status |-> status,
                         full |-> FALSE]
    IN  IF ~HasRow(invs, id) THEN same(404)
        ELSE IF file_info.is_archived /\ file_info.file_path = NoPath THEN same(500)
        ELSE IF rn.raised THEN same(500)
        ELSE IF rn.path # NoPath /\ PathTaken(invs, id, rn.path)
        THEN [invoices |-> invs, files |-> rn.files, status |-> 500, full |-> FALSE]
        ELSE [invoices |-> SetRow(invs, r1), files |-> rn.files, status |-> 200,
              full |-> ~is_bulk_update]

\* the rest of a full update: write the identifier, then archive
UpdateInvoiceArchive(invs, fs, bizs, file_info, data, next_id, render_ok, move_ok) ==
    IF ~HasRow(invs, file_info.id) THEN [invoices |-> invs, files |-> fs]
    ELSE ArchiveAfterSave(
            SetRow(invs, [RowOf(invs, file_info.id) EXCEPT !.invoice_id = next_id]),
            fs, bizs, file_info, data, next_id, "Ausgaben", render_ok, move_ok)

\* POST /api/invoice/<id>: update_invoice
UpdateInvoice(invs, fs, bizs, id, data, render_ok, move_ok) ==
    The({IF ~u.full
         THEN [invoices |-> u.invoices, files |-> u.files, status |-> u.status]
         ELSE The({[invoices |-> a.invoices, files |-> a.files, status |-> 200]
                   : a \in {UpdateInvoiceArchive(u.invoices, u.files, bizs,
                               RowOf(invs, id), data,
                               get_next_invoice_id(u.invoices, bizs, Year(data.date),
                                                   RowOf(invs, id).business_id),
                               render_ok, move_ok)}})
         : u \in {UpdateInvoiceFields(invs, fs, bizs, id, data, move_ok)}})

\* POST /api/income/<id>: update_income
UpdateIncome(invs, fs, bizs, id, data, render_ok, move_ok) ==
    LET file_info == RowOf(invs, id)
        is_updating_archived == file_info.is_archived /\ InArchive(file_info.file_path)
        rn == IF is_updating_archived
              THEN RenameArchivedFile(fs, bizs, file_info, data, move_ok)
              ELSE [path |-> NoPath, files |-> fs, raised |-> FALSE]
        r1 == [file_info EXCEPT
                 !.date = data.date, !.amount = data.amount,
                 !.category = data.category, !.description = data.description,
                 !.reviewed = TRUE, !.processed = TRUE,
                 !.is_archived = IF HasFlag(data, "is_archived")
                                 THEN FlagOf(data, "is_archived") ELSE @,
                 !.file_path = IF rn.path # NoPath THEN rn.path ELSE @]
        next_id == get_next_income_id(SetRow(invs, r1), bizs, Year(data.date),
                                      file_info.business_id)
        r2 == [r1 EXCEPT !.invoice_id = next_id]
        same(status) == [invoices |-> invs, files |-> fs, status |-> status]
    IN  IF ~(TruthyDate(data.date) /\ TruthyAmount(data.amount)
             /\ TruthyText(data.category)) THEN same(400)
        ELSE IF ~HasRow(invs, id) THEN same(404)
        ELSE IF file_info.is_archived /\ file_info.file_path = NoPath THEN same(500)
        ELSE IF rn.raised THEN same(500)
        ELSE IF rn.path # NoPath /\ PathTaken(invs, id, rn.path)
        THEN [invoices |-> invs, files |-> rn.files, status |-> 500]
        ELSE LET a == ArchiveAfterSave(SetRow(invs, r2), rn.files, bizs, file_info,
                          data, next_id, "Einnahmen", render_ok, move_ok)
             IN  [invoices |-> a.invoices, files |-> a.files, status |-> 200]

\* POST /api/invoice: create_manual_invoice after the allocation: the
\* INSERT with the .virtual path, then the placeholder
CreateManualInsert(invs, fs, bizs, nextRow, data, type, next_id, render_ok) ==
    LET bs == GetBusiness(bizs, data.business_id)
        business_folder == IF bs = {} THEN "Default"
                           ELSE (CHOOSE b \in bs : TRUE).name
        file_path == [root |-> "Archive", biz |-> business_folder,
                      folder |-> TypeFolder(type = "income"),
                      year |-> Year(data.date),
                      name |-> CanonicalName(data.date, next_id, data.category,
                                             data.description, data.amount),
                      ext |-> "virtual", abs |-> FALSE]
        pdf_path == [file_path EXCEPT !.ext = "pdf"]
        row == [NewInvoiceRow(nextRow) EXCEPT
                  !.file_path = file_path, !.business_id = data.business_id,
                  !.date = data.date, !.amount = data.amount,
                  !.category = data.category, !.description = data.description,
                  !.reviewed = TRUE, !.processed = TRUE, !.invoice_id = next_id]
    IN  IF PathTaken(invs, nextRow, file_path)
        THEN [invoices |-> invs, files |-> fs, nextRow |-> nextRow, status |-> 500]
        ELSE IF ~render_ok
        THEN [invoices |-> invs \cup {row}, files |-> fs,
              nextRow |-> nextRow + 1, status |-> 200]
        ELSE IF PathTaken(invs, nextRow, pdf_path)
        THEN [invoices |-> invs \cup {row}, files |-> fs \cup {OnDisk(pdf_path)},
              nextRow |-> nextRow + 1, status |-> 200]
        ELSE [invoices |-> invs \cup {[row EXCEPT !.file_path = pdf_path,
                                                  !.is_placeholder_pdf = TRUE]},
              files |-> fs \cup {OnDisk(pdf_path)},
              nextRow |-> nextRow + 1, status |-> 200]

\* POST /api/invoice: create_manual_invoice
CreateManualInvoice(invs, fs, bizs, nextRow, data, type, render_ok) ==
    CreateManualInsert(invs, fs, bizs, nextRow, data, type,
        get_next_invoice_id(invs, bizs, Year(data.date), data.business_id),
        render_ok)

\* POST /api/invoice/<id>/upload: upload_file_to_invoice
UploadFile(invs, fs, bizs, id, ext, result, conv_ok, now) ==
    LET invoice == RowOf(invs, id)
        bs == GetBusiness(bizs, invoice.business_id)
        business_folder == IF bs = {} THEN "Default"
                           ELSE (CHOOSE b \in bs : TRUE).name
        type_folder == TypeFolder(invoice.invoice_id.kind = "ERE")
        is_archived == invoice.is_archived /\ InArchive(invoice.file_path)
        date_obj == IF invoice.date # NoDate THEN invoice.date ELSE now
        saved == IF is_archived
                 THEN ArchivePath(business_folder, type_folder, Year(date_obj),
                          RenamedName(date_obj, invoice.invoice_id, invoice.category,
                                      invoice.description, invoice.amount), ext)
                 ELSE [InboxFile(business_folder, type_folder,
                                 invoice.description, ext) EXCEPT
                          !.name.fmt = "upload", !.name.date = now]
        file_path == IF ext \in ImageExts THEN [saved EXCEPT !.ext = "pdf"] ELSE saved
        fs1 == (fs \ {saved}) \cup {file_path}
        old == invoice.file_path
        fs2 == IF PathExists(fs1, old) /\ old # file_path THEN fs1 \ {old} ELSE fs1
        r1 == [invoice EXCEPT !.file_path = file_path,
                              !.is_placeholder_pdf = FALSE,
                              !.is_archived = IF is_archived THEN TRUE ELSE @]
        r2 == IF result.text = "raise" THEN r1 ELSE UpdateOcrResults(r1, result)
        same(status) == [invoices |-> invs, files |-> fs, status |-> status]
    IN  IF ~HasRow(invs, id) THEN same(404)
        ELSE IF invoice.invoice_id = NoId THEN same(500)
        ELSE IF invoice.is_archived /\ invoice.file_path = NoPath THEN same(500)
        ELSE IF invoice.description = "NULL" THEN same(500)
        ELSE IF is_archived /\ invoice.category = "NULL" THEN same(500)
        ELSE IF ext \in ImageExts /\ ~conv_ok
        THEN [invoices |-> invs, files |-> fs \cup {saved}, status |-> 500]
        ELSE IF PathTaken(invs, id, file_path)
        THEN [invoices |-> invs, files |-> fs2, status |-> 500]
        ELSE [invoices |-> SetRow(invs, r2), files |-> fs2, status |-> 200]

\* DELETE /api/invoice/<id>: delete_invoice
DeleteInvoice(invs, fs, id) ==
    LET invoice == RowOf(invs, id)
    IN  IF ~HasRow(invs, id) THEN [invoices |-> invs, files |-> fs, status |-> 404]
        ELSE [invoices |-> invs \ {invoice},
              files |-> IF invoice.file_path # NoPath /\ ~invoice.is_recurring_generated
                        THEN fs \ {OnDisk(invoice.file_path)} ELSE fs,
              status |-> 200]

---------------------------------------------------------------------------
(* Lifecycle specification: the inbox, the watcher and the requests that  *)
(* review, create and replace records                                      *)

Folders == {"Ausgaben", "Einnahmen"}
DropExts == {"pdf", "jpg"}

LifeInit ==
    /\ businesses = {TheBusiness}
    /\ nextBusinessRow = 2
    /\ invoices = {}
    /\ recurring = {}
    /\ files = {}
    /\ nextInvoiceRow = 1
    /\ nextRecurringRow = 1
    /\ today = FirstDay
    /\ clock = 0
    /\ calls = 0
    /\ threads = <<>>
    /\ running = TRUE
    /\ dropped = 0
    /\ resp = [op |-> "init", after |-> "init"]

\* the user puts a document into an inbox folder
DropFile(folder, ext) ==
    /\ dropped < MaxFiles
    /\ InboxFile(TheBusiness.name, folder, "scan", ext) \notin files
    /\ files' = files \cup {InboxFile(TheBusiness.name, folder, "scan", ext)}
    /\ dropped' = dropped + 1
    /\ resp' = [op |-> "drop", after |-> resp.op]
    /\ UNCHANGED <<businesses, nextBusinessRow, invoices, recurring, nextInvoiceRow,
                   nextRecurringRow, today, clock, calls, threads, running>>

\* one file of AutoProcessor._process_inbox_files
WatcherFile(p, result, conv_ok, move_ok) ==
    /\ running
    /\ calls < MaxOps
    /\ p \in files /\ InInbox(p) /\ p.ext \in DropExts
    /\ \E b \in businesses :
        /\ b.name = p.biz
        /\ LET known == {i \in invoices : i.file_path = p}
               row == IF known # {} THEN CHOOSE i \in known : TRUE
                      ELSE [NewInvoiceRow(nextInvoiceRow) EXCEPT
                                !.file_path = p, !.business_id = b.id]
               ran == known = {} \/ (~row.processed /\ ~TruthyText(row.ocr_text))
           IN  /\ \E a \in {IF ran
                            THEN AutoProcessFile(SetRow(invoices, row), files,
                                     businesses, b, row.id, p.folder, result,
                                     conv_ok, move_ok)
                            ELSE [invoices |-> invoices, files |-> files,
                                  extracted |-> FALSE]} :
                    /\ invoices' = a.invoices
                    /\ files' = a.files
                    /\ resp' = [op |-> "watcher", after |-> resp.op,
                                id |-> row.id, ran |-> ran,
                                extracted |-> a.extracted, result |-> result,
                                move_ok |-> move_ok]
               /\ nextInvoiceRow' = IF known = {} THEN nextInvoiceRow + 1
                                    ELSE nextInvoiceRow
    /\ calls' = calls + 1
    /\ UNCHANGED <<businesses, nextBusinessRow, recurring, nextRecurringRow, today, clock,
                   threads, running, dropped>>

\* POST /api/auto-processor/toggle
ToggleAutoProcessor ==
    /\ calls < MaxOps
    /\ running' = ~running
    /\ calls' = calls + 1
    /\ resp' = [op |-> "toggle", after |-> resp.op]
    /\ UNCHANGED <<businesses, nextBusinessRow, invoices, recurring, files, nextInvoiceRow,
                   nextRecurringRow, today, clock, threads, dropped>>

\* POST /api/inbox/scan: scan_all_inboxes registers the unknown inbox files,
\* in the order the folder listing returns them
ScanInboxes ==
    /\ LET unknown == {p \in files :
                         /\ InInbox(p) /\ p.ext \in DropExts
                         /\ \E b \in businesses : b.name = p.biz
                         /\ ~\E i \in invoices : i.file_path = p}
           n == Cardinality(unknown)
       IN  /\ \E order \in [unknown -> nextInvoiceRow .. (nextInvoiceRow + n - 1)] :
                /\ \A p, q \in unknown : p # q => order[p] # order[q]
                /\ invoices' = invoices \cup
                      {[NewInvoiceRow(order[p]) EXCEPT
                           !.file_path = p,
                           !.business_id = (CHOOSE b \in businesses : b.name = p.biz).id]
                       : p \in unknown}
           /\ nextInvoiceRow' = nextInvoiceRow + n
           /\ resp' = [op |-> "scan", after |-> resp.op, total_new |-> n]
    /\ UNCHANGED <<businesses, nextBusinessRow, recurring, files, nextRecurringRow, today, clock,
                   calls, threads, running, dropped>>

\* GET /process/<id> and GET /income/process/<id>: extraction, then
\* update_ocr_results; an extraction that raises ends the request
OcrNow(id, result) ==
    /\ calls < MaxOps
    /\ HasRow(invoices, id)
    /\ invoices' = IF result.text = "raise" THEN invoices
                   ELSE SetRow(invoices, UpdateOcrResults(RowOf(invoices, id), result))
    /\ calls' = calls + 1
    /\ resp' = [op |-> "process", after |-> resp.op, id |-> id]
    /\ UNCHANGED <<businesses, nextBusinessRow, recurring, files, nextInvoiceRow, nextRecurringRow,
                   today, clock, threads, running, dropped>>

ManualSave(id, data, render_ok, move_ok) ==
    /\ calls < MaxOps
    /\ HasRow(invoices, id)
    /\ \E u \in {UpdateInvoice(invoices, files, businesses, id, data,
                               render_ok, move_ok)} :
         /\ invoices' = u.invoices
         /\ files' = u.files
         /\ resp' = [op |-> "save", after |-> resp.op, id |-> id,
                     status |-> u.status, data |-> data, move_ok |-> move_ok]
    /\ calls' = calls + 1
    /\ UNCHANGED <<businesses, nextBusinessRow, recurring, nextInvoiceRow, nextRecurringRow,
                   today, clock, threads, running, dropped>>

ManualSaveIncome(id, data, render_ok, move_ok) ==
    /\ calls < MaxOps
    /\ HasRow(invoices, id)
    /\ \E u \in {UpdateIncome(invoices, files, businesses, id, data,
                              render_ok, move_ok)} :
         /\ invoices' = u.invoices
         /\ files' = u.files
         /\ resp' = [op |-> "save_income", after |-> resp.op, id |-> id,
                     status |-> u.status, data |-> data, move_ok |-> move_ok]
    /\ calls' = calls + 1
    /\ UNCHANGED <<businesses, nextBusinessRow, recurring, nextInvoiceRow, nextRecurringRow,
                   today, clock, threads, running, dropped>>

CreateManual(data, type, render_ok) ==
    /\ calls < MaxOps
    /\ \E c \in {CreateManualInvoice(invoices, files, businesses, nextInvoiceRow,
                                     data, type, render_ok)} :
         /\ invoices' = c.invoices
         /\ files' = c.files
         /\ nextInvoiceRow' = c.nextRow
         /\ resp' = [op |-> "create", after |-> resp.op, id |-> nextInvoiceRow,
                     status |-> c.status, type |-> type]
    /\ calls' = calls + 1
    /\ UNCHANGED <<businesses, nextBusinessRow, recurring, nextRecurringRow, today, clock,
                   threads, running, dropped>>

Upload(id, ext, result, conv_ok) ==
    /\ calls < MaxOps
    /\ HasRow(invoices, id)
    /\ \E u \in {UploadFile(invoices, files, businesses, id, ext, result,
                            conv_ok, today)} :
         /\ invoices' = u.invoices
         /\ files' = u.files
         /\ resp' = [op |-> "upload", after |-> resp.op, id |-> id,
                     status |-> u.status]
    /\ calls' = calls + 1
    /\ UNCHANGED <<businesses, nextBusinessRow, recurring, nextInvoiceRow, nextRecurringRow,
                   today, clock, threads, running, dropped>>

Delete(id) ==
    /\ calls < MaxOps
    /\ HasRow(invoices, id)
    /\ \E d \in {DeleteInvoice(invoices, files, id)} :
         /\ invoices' = d.invoices
         /\ files' = d.files
         /\ resp' = [op |-> "delete", after |-> resp.op, id |-> id,
                     status |-> d.status]
    /\ calls' = calls + 1
    /\ UNCHANGED <<businesses, nextBusinessRow, recurring, nextInvoiceRow, nextRecurringRow,
                   today, clock, threads, running, dropped>>

\* request bodies of the two save routes and of the create route
SaveDay == MkDate(2025, 2, 10)

FullSaves ==
    {SaveData(SaveDay, 1250, "Buero", "Beleg", {}),
     SaveData(SaveDay, 995, "Reise", "NULL", {}),
     SaveData(SaveDay, 1250, "Buero", "Beleg", {<<"is_archived", FALSE>>})}

PartialSaves ==
    {SaveData(NoDate, NoAmount, "Reise", "NULL", {}),
     SaveData(NoDate, 0, "NULL", "NULL", {}),
     SaveData(NoDate, NoAmount, "NULL", "NULL", {<<"is_archived", TRUE>>}),
     SaveData(NoDate, NoAmount, "NULL", "NULL", {<<"reviewed", TRUE>>})}

SaveInputs == FullSaves \cup PartialSaves

ManualInput ==
    [date |-> SaveDay, amount |-> 1250, category |-> "Buero",
     description |-> "Beleg", business_id |-> TheBusiness.id]

RowIds == {i.id : i \in invoices}

LifeRecurringInputs ==
    {RecurringInput("expense", "monthly", 1, MkDate(2025, 2, 1), NoDate)}

LifeNext ==
    \/ \E folder \in Folders, ext \in DropExts : DropFile(folder, ext)
    \/ \E p \in files, result \in Results, conv_ok \in BOOLEAN, move_ok \in BOOLEAN :
          WatcherFile(p, result, conv_ok, move_ok)
    \/ ToggleAutoProcessor
    \/ ScanInboxes
    \/ \E id \in RowIds, result \in Results : OcrNow(id, result)
    \/ \E id \in RowIds, data \in SaveInputs, render_ok \in BOOLEAN, move_ok \in BOOLEAN :
          ManualSave(id, data, render_ok, move_ok)
    \/ \E id \in RowIds, data \in SaveInputs, render_ok \in BOOLEAN, move_ok \in BOOLEAN :
          ManualSaveIncome(id, data, render_ok, move_ok)
    \/ \E type \in {"expense", "income"}, render_ok \in BOOLEAN :
          CreateManual(ManualInput, type, render_ok)
    \/ \E id \in RowIds, ext \in DropExts, result \in Results, conv_ok \in BOOLEAN :
          Upload(id, ext, result, conv_ok)
    \/ \E id \in RowIds : Delete(id)
    \/ \E data \in LifeRecurringInputs : CreateRecurring(data)
    \/ Startup

SpecLife == LifeInit /\ [][LifeNext]_vars

---------------------------------------------------------------------------
(* Properties of the lifecycle *)

SaveOps == {"save", "save_income"}

\* the fields a save edits
Edited(before, after) ==
    \/ before.date # after.date
    \/ before.amount # after.amount
    \/ before.category # after.category
    \/ before.description # after.description

\* C2: a successful save through POST /api/invoice/<id> or
\* POST /api/income/<id> on a record that is archived and holds identifier I,
\* and that changes date, amount, category or description, leaves the
\* identifier equal to I
C2_SavePreservesIdentifier ==
    [][(resp'.op \in SaveOps /\ resp'.status = 200 /\ HasRow(invoices, resp'.id))
       => LET before == RowOf(invoices, resp'.id)
              after == RowOf(invoices', resp'.id)
          IN  (before.is_archived /\ before.invoice_id # NoId
               /\ Edited(before, after))
              => after.invoice_id = before.invoice_id]_vars

\* C3: in every reachable state every record whose archived flag is set
\* holds an identifier
C3_ArchivedHasIdentifier ==
    \A i \in invoices : i.is_archived => i.invoice_id # NoId

\* the Watcher ran the extraction for a file and got a date and an amount
\* but no category
IncompleteExtraction(r) ==
    /\ r.op = "watcher" /\ r.extracted
    /\ TruthyDate(r.result.date) /\ TruthyAmount(r.result.amount)
    /\ ~TruthyText(r.result.category)

WatcherArchiveAttempt(r) ==
    r.op = "watcher" /\ r.extracted /\ HasRequiredFields(r.result)

\* a full save has just tried to move the record's inbox file to the archive
SaveArchiveAttempt(r, before, fs) ==
    /\ r.op \in SaveOps /\ r.status = 200
    /\ TruthyDate(r.data.date) /\ TruthyAmount(r.data.amount)
    /\ TruthyText(r.data.category)
    /\ InInbox(before.file_path) /\ PathExists(fs, before.file_path)
    /\ GetBusiness(businesses, before.business_id) # {}

\* C11 as stated: when the move of the artifact fails during archival (the
\* Watcher's auto-archive or a manual save), the record is left with the
\* archived flag set and its previous artifact path
C11_FailedMoveLeavesArchived ==
    [][/\ (WatcherArchiveAttempt(resp') /\ ~resp'.move_ok)
          => LET after == RowOf(invoices', resp'.id)
             IN  after.is_archived /\ InInbox(after.file_path)
       /\ (resp'.op \in SaveOps /\ HasRow(invoices, resp'.id) /\ ~resp'.move_ok
           /\ SaveArchiveAttempt(resp', RowOf(invoices, resp'.id), files))
          => LET after == RowOf(invoices', resp'.id)
             IN  /\ after.is_archived
                 /\ after.file_path = RowOf(invoices, resp'.id).file_path]_vars

\* C11, amended: when the move fails, the archival step stores neither the
\* archived flag nor a new path: the record holds the identifier just
\* allocated, its archived flag is what it was before the step (or the
\* explicit flag of the request), and its path is the inbox path, where the
\* file still is
C11_FailedMoveNotArchived ==
    [][/\ (WatcherArchiveAttempt(resp') /\ ~resp'.move_ok)
          => LET after == RowOf(invoices', resp'.id)
                 before == IF HasRow(invoices, resp'.id)
                           THEN RowOf(invoices, resp'.id)
                           ELSE NewInvoiceRow(resp'.id)
             IN  /\ after.invoice_id # NoId
                 /\ after.is_archived = before.is_archived
                 /\ InInbox(after.file_path) /\ after.file_path \in files'
       /\ (resp'.op \in SaveOps /\ HasRow(invoices, resp'.id) /\ ~resp'.move_ok
           /\ SaveArchiveAttempt(resp', RowOf(invoices, resp'.id), files))
          => LET after == RowOf(invoices', resp'.id)
                 before == RowOf(invoices, resp'.id)
             IN  /\ after.invoice_id # NoId
                 /\ after.is_archived = IF HasFlag(resp'.data, "is_archived")
                                        THEN FlagOf(resp'.data, "is_archived")
                                        ELSE before.is_archived
                 /\ after.file_path = before.file_path
                 /\ after.file_path \in files']_vars

\* the Watcher's move has just failed for a complete extraction: the record
\* holds an identifier, is not archived and its file is still in the inbox
C11_Witness ==
    /\ WatcherArchiveAttempt(resp) /\ ~resp.move_ok
    /\ \E i \in invoices :
          /\ i.id = resp.id /\ i.invoice_id # NoId /\ ~i.is_archived
          /\ InInbox(i.file_path) /\ i.file_path \in files

---------------------------------------------------------------------------
(* Allocation specification: the watcher thread and request threads that  *)
(* each take an identifier from the allocator and then write it to their   *)
(* own record; every database call is one step                             *)

AllocResult == Extraction("ocr", SaveDay, 1250, "Buero", "Beleg")
AllocSave == SaveData(SaveDay, 995, "Reise", "Beleg", {})

AllocIdle ==
    [pc |-> "idle", kind |-> "none", target |-> 0, file_info |-> NewInvoiceRow(0),
     folder |-> "", cur |-> NoPath, next_id |-> NoId, type |-> ""]

\* no other caller is at work on the record
OwnRecord(t, id) ==
    \A u \in Callers \ {t} : threads[u].pc = "idle" \/ threads[u].target # id

AllocInit ==
    /\ businesses = {TheBusiness}
    /\ nextBusinessRow = 2
    /\ invoices = {}
    /\ recurring = {}
    /\ files = {}
    /\ nextInvoiceRow = 1
    /\ nextRecurringRow = 1
    /\ today = FirstDay
    /\ clock = 0
    /\ calls = 0
    /\ threads = [t \in Callers |-> AllocIdle]
    /\ running = TRUE
    /\ dropped = 0
    /\ resp = [op |-> "init", after |-> "init"]

\* the watcher thread takes the file p: registration, conversion, extraction
\* and, for a complete result, the call of the allocator
WatchAllocate(t, p, conv_ok) ==
    /\ threads[t].pc = "idle"
    /\ calls < MaxOps
    /\ p \in files /\ InInbox(p) /\ p.ext \in DropExts
    /\ \E b \in businesses :
        /\ b.name = p.biz
        /\ LET known == {i \in invoices : i.file_path = p}
               row == IF known # {} THEN CHOOSE i \in known : TRUE
                      ELSE [NewInvoiceRow(nextInvoiceRow) EXCEPT
                                !.file_path = p, !.business_id = b.id]
           IN  /\ known = {} \/ (~row.processed /\ ~TruthyText(row.ocr_text))
               /\ OwnRecord(t, row.id)
               /\ \E e \in {AutoProcessExtract(SetRow(invoices, row), files, row.id,
                                               AllocResult, conv_ok)} :
                    /\ invoices' = e.invoices
                    /\ files' = e.files
                    /\ threads' = [threads EXCEPT ![t] =
                          IF ~e.complete THEN AllocIdle
                          ELSE [AllocIdle EXCEPT
                                  !.pc = "write", !.kind = "watcher",
                                  !.target = row.id, !.folder = p.folder,
                                  !.cur = e.cur,
                                  !.next_id = AutoProcessAllocate(e.invoices,
                                      businesses, b, p.folder, AllocResult)]]
               /\ nextInvoiceRow' = IF known = {} THEN nextInvoiceRow + 1
                                    ELSE nextInvoiceRow
    /\ calls' = calls + 1
    /\ UNCHANGED <<businesses, nextBusinessRow, recurring, nextRecurringRow, today, clock,
                   running, dropped, resp>>

\* the watcher thread writes the identifier and archives the file
WatchWrite(t, move_ok) ==
    /\ threads[t].pc = "write" /\ threads[t].kind = "watcher"
    /\ LET me == threads[t]
       IN  \E a \in {AutoProcessArchive(invoices, files, TheBusiness, me.target,
                         me.folder, AllocResult, me.cur, me.next_id, move_ok)} :
              /\ invoices' = a.invoices
              /\ files' = a.files
    /\ threads' = [threads EXCEPT ![t] = AllocIdle]
    /\ UNCHANGED <<businesses, nextBusinessRow, recurring, nextInvoiceRow, nextRecurringRow, today,
                   clock, calls, running, dropped, resp>>

\* a full POST /api/invoice/<id>: the field update and the call of the allocator
SaveAllocate(t, id) ==
    /\ threads[t].pc = "idle"
    /\ calls < MaxOps
    /\ HasRow(invoices, id)
    /\ OwnRecord(t, id)
    /\ \E u \in {UpdateInvoiceFields(invoices, files, businesses, id, AllocSave,
                                     TRUE)} :
         /\ invoices' = u.invoices
         /\ files' = u.files
         /\ threads' = [threads EXCEPT ![t] =
               IF ~u.full THEN AllocIdle
               ELSE [AllocIdle EXCEPT
                       !.pc = "write", !.kind = "save", !.target = id,
                       !.file_info = RowOf(invoices, id),
                       !.next_id = get_next_invoice_id(u.invoices, businesses,
                            Year(AllocSave.date), RowOf(invoices, id).business_id)]]
    /\ calls' = calls + 1
    /\ UNCHANGED <<businesses, nextBusinessRow, recurring, nextInvoiceRow, nextRecurringRow, today,
                   clock, running, dropped, resp>>

\* the save request writes the identifier and archives
SaveWrite(t, render_ok, move_ok) ==
    /\ threads[t].pc = "write" /\ threads[t].kind = "save"
    /\ LET me == threads[t]
       IN  \E a \in {UpdateInvoiceArchive(invoices, files, businesses, me.file_info,
                         AllocSave, me.next_id, render_ok, move_ok)} :
              /\ invoices' = a.invoices
              /\ files' = a.files
    /\ threads' = [threads EXCEPT ![t] = AllocIdle]
    /\ UNCHANGED <<businesses, nextBusinessRow, recurring, nextInvoiceRow, nextRecurringRow, today,
                   clock, calls, running, dropped, resp>>

\* POST /api/invoice: the call of the allocator
CreateAllocate(t, type) ==
    /\ threads[t].pc = "idle"
    /\ calls < MaxOps
    /\ threads' = [threads EXCEPT ![t] =
          [AllocIdle EXCEPT
             !.pc = "write", !.kind = "create", !.type = type,
             !.next_id = get_next_invoice_id(invoices, businesses,
                             Year(ManualInput.date), ManualInput.business_id)]]
    /\ calls' = calls + 1
    /\ UNCHANGED <<businesses, nextBusinessRow, invoices, recurring, files, nextInvoiceRow,
                   nextRecurringRow, today, clock, running, dropped, resp>>

\* POST /api/invoice: the INSERT and the placeholder
CreateInsert(t, render_ok) ==
    /\ threads[t].pc = "write" /\ threads[t].kind = "create"
    /\ LET me == threads[t]
       IN  \E c \in {CreateManualInsert(invoices, files, businesses, nextInvoiceRow,
                         ManualInput, me.type, me.next_id, render_ok)} :
              /\ invoices' = c.invoices
              /\ files' = c.files
              /\ nextInvoiceRow' = c.nextRow
    /\ threads' = [threads EXCEPT ![t] = AllocIdle]
    /\ UNCHANGED <<businesses, nextBusinessRow, recurring, nextRecurringRow, today, clock, calls,
                   running, dropped, resp>>

AllocNext ==
    \/ \E folder \in Folders, ext \in DropExts : DropFile(folder, ext)
    \/ ScanInboxes
    \/ \E t \in Callers, p \in files, conv_ok \in BOOLEAN : WatchAllocate(t, p, conv_ok)
    \/ \E t \in Callers, move_ok \in BOOLEAN : WatchWrite(t, move_ok)
    \/ \E t \in Callers, id \in RowIds : SaveAllocate(t, id)
    \/ \E t \in Callers, render_ok \in BOOLEAN, move_ok \in BOOLEAN :
          SaveWrite(t, render_ok, move_ok)
    \/ \E t \in Callers, type \in {"expense", "income"} : CreateAllocate(t, type)
    \/ \E t \in Callers, render_ok \in BOOLEAN : CreateInsert(t, render_ok)

SpecAlloc == AllocInit /\ [][AllocNext]_vars

\* C1: whatever the interleaving of callers that take an identifier from the
\* allocator and then write it to their own record, no two records hold the
\* same identifier
C1_NoDuplicateIdentifier ==
    \A i, j \in invoices :
        (i.id # j.id /\ i.invoice_id # NoId) => i.invoice_id # j.invoice_id

---------------------------------------------------------------------------
(* Business specification: businesses are created and deleted while        *)
(* records and recurring definitions refer to them                          *)

NoBusiness == 0

\* the BLOCK branch of delete_business: dependents exist and neither cascade
\* nor reassign_to is given
BlocksDelete_InvoicesOnly(invoice_count, recurring_count, cascade, reassign_to) ==
    invoice_count > 0 /\ ~cascade /\ reassign_to = NoBusiness

BlocksDelete(invoice_count, recurring_count, cascade, reassign_to) ==
    (invoice_count > 0 \/ recurring_count > 0) /\ ~cascade /\ reassign_to = NoBusiness

\* the unlink loop of the cascade branch over the rows in rowid order; a row
\* without file_path makes Path(None) raise
RECURSIVE UnlinkFiles(_, _)
UnlinkFiles(rows, fs) ==
    IF rows = <<>> THEN [files |-> fs, raised |-> FALSE]
    ELSE IF Head(rows).file_path = NoPath THEN [files |-> fs, raised |-> TRUE]
    ELSE UnlinkFiles(Tail(rows),
                     IF PathExists(fs, Head(rows).file_path)
                     THEN fs \ {Head(rows).file_path} ELSE fs)

\* delete_business with a reassign branch that moves the records only
DeleteBusinessDb_RecordsOnly(bizs, invs, recs, fs, business_id, cascade, reassign_to) ==
    LET mine == {i \in invs : i.business_id = business_id}
        invoice_count == Cardinality(mine)
        recurring_count == Cardinality({r \in recs : r.business_id = business_id})
        same == [businesses |-> bizs, invoices |-> invs, recurring |-> recs,
                 files |-> fs, raised |-> TRUE]
        u == UnlinkFiles(RowsById(mine), fs)
    IN  IF BlocksDelete(invoice_count, recurring_count, cascade, reassign_to)
        THEN same
        ELSE IF (invoice_count > 0 \/ recurring_count > 0) /\ cascade
        THEN IF u.raised THEN [same EXCEPT !.files = u.files]
             ELSE [businesses |-> {b \in bizs : b.id # business_id},
                   invoices |-> invs \ mine,
                   recurring |-> {r \in recs : r.business_id # business_id},
                   files |-> u.files, raised |-> FALSE]
        ELSE IF invoice_count > 0 \/ recurring_count > 0
        THEN [businesses |-> {b \in bizs : b.id # business_id},
              invoices |-> {IF i \in mine THEN [i EXCEPT !.business_id = reassign_to]
                            ELSE i : i \in invs},
              recurring |-> recs,
              files |-> fs, raised |-> FALSE]
        ELSE [businesses |-> {b \in bizs : b.id # business_id},
              invoices |-> invs, recurring |-> recs, files |-> fs,
              raised |-> FALSE]

\* Database.delete_business
DeleteBusinessDb(bizs, invs, recs, fs, business_id, cascade, reassign_to) ==
    LET mine == {i \in invs : i.business_id = business_id}
        invoice_count == Cardinality(mine)
        recurring_count == Cardinality({r \in recs : r.business_id = business_id})
        same == [businesses |-> bizs, invoices |-> invs, recurring |-> recs,
                 files |-> fs, raised |-> TRUE]
        u == UnlinkFiles(RowsById(mine), fs)
    IN  IF BlocksDelete(invoice_count, recurring_count, cascade, reassign_to)
        THEN same
        ELSE IF (invoice_count > 0 \/ recurring_count > 0) /\ cascade
        THEN IF u.raised THEN [same EXCEPT !.files = u.files]
             ELSE [businesses |-> {b \in bizs : b.id # business_id},
                   invoices |-> invs \ mine,
                   recurring |-> {r \in recs : r.business_id # business_id},
                   files |-> u.files, raised |-> FALSE]
        ELSE IF invoice_count > 0 \/ recurring_count > 0
        THEN [businesses |-> {b \in bizs : b.id # business_id},
              invoices |-> {IF i \in mine THEN [i EXCEPT !.business_id = reassign_to]
                            ELSE i : i \in invs},
              recurring |-> {IF r.business_id = business_id
                             THEN [r EXCEPT !.business_id = reassign_to]
                             ELSE r : r \in recs},
              files |-> fs, raised |-> FALSE]
        ELSE [businesses |-> {b \in bizs : b.id # business_id},
              invoices |-> invs, recurring |-> recs, files |-> fs,
              raised |-> FALSE]

MaxBusinesses == 2

BizNames == {"B1", "B2"}
BizPrefixes == {"TB", "T2"}

BizInit ==
    /\ businesses = {TheBusiness}
    /\ nextBusinessRow = 2
    /\ invoices = {}
    /\ recurring = {}
    /\ files = {}
    /\ nextInvoiceRow = 1
    /\ nextRecurringRow = 1
    /\ today = FirstDay
    /\ clock = 0
    /\ calls = 0
    /\ threads = <<>>
    /\ running = TRUE
    /\ dropped = 0
    /\ resp = [op |-> "init", after |-> "init"]

\* POST /api/businesses: create_business; a taken name or prefix gives 400
CreateBusiness(name, prefix) ==
    /\ nextBusinessRow <= MaxBusinesses
    /\ LET taken == \E b \in businesses : b.name = name \/ b.prefix = prefix
       IN  /\ businesses' = IF taken THEN businesses
                            ELSE businesses \cup {[id |-> nextBusinessRow,
                                                   name |-> name, prefix |-> prefix]}
           /\ nextBusinessRow' = IF taken THEN nextBusinessRow
                                 ELSE nextBusinessRow + 1
           /\ resp' = [op |-> "create_business", after |-> resp.op,
                       name |-> name, prefix |-> prefix,
                       status |-> IF taken THEN 400 ELSE 200]
    /\ UNCHANGED <<invoices, recurring, files, nextInvoiceRow, nextRecurringRow,
                   today, clock, calls, threads, running, dropped>>

\* a key the request body lacks: data.get gives None
NoText == ""

\* update_business that lets a taken prefix through
UpdateBusinessDb_NameOnly(bizs, business_id, name, prefix) ==
    IF \E b \in bizs : b.id = business_id
    THEN IF \/ name = NoText \/ prefix = NoText
            \/ \E b \in bizs : b.id # business_id /\ b.name = name
         THEN [businesses |-> bizs, raised |-> TRUE]
         ELSE [businesses |-> {IF b.id = business_id
                               THEN [b EXCEPT !.name = name, !.prefix = prefix]
                               ELSE b : b \in bizs},
               raised |-> FALSE]
    ELSE [businesses |-> bizs, raised |-> FALSE]

\* Database.update_business: one UPDATE of the row; NOT NULL and UNIQUE on
\* name and prefix make it raise sqlite3.IntegrityError, nothing is written
UpdateBusinessDb(bizs, business_id, name, prefix) ==
    IF \E b \in bizs : b.id = business_id
    THEN IF \/ name = NoText \/ prefix = NoText
            \/ \E b \in bizs : b.id # business_id
                                /\ (b.name = name \/ b.prefix = prefix)
         THEN [businesses |-> bizs, raised |-> TRUE]
         ELSE [businesses |-> {IF b.id = business_id
                               THEN [b EXCEPT !.name = name, !.prefix = prefix]
                               ELSE b : b \in bizs},
               raised |-> FALSE]
    ELSE [businesses |-> bizs, raised |-> FALSE]

\* PUT /api/businesses/<id>: update_business; any exception gives 500
UpdateBusiness(business_id, name, prefix) ==
    /\ \E u \in {UpdateBusinessDb(businesses, business_id, name, prefix)} :
         /\ businesses' = u.businesses
         /\ resp' = [op |-> "update_business", after |-> resp.op,
                     id |-> business_id, name |-> name, prefix |-> prefix,
                     status |-> IF u.raised THEN 500 ELSE 200]
    /\ UNCHANGED <<invoices, recurring, files, nextBusinessRow, nextInvoiceRow,
                   nextRecurringRow, today, clock, calls, threads, running, dropped>>

\* DELETE /api/businesses/<id>?cascade=..&reassign_to=..: delete_business
DeleteBusiness(business_id, cascade, reassign_to) ==
    /\ calls < MaxOps
    /\ \E b \in businesses :
        /\ b.id = business_id
        /\ \E d \in {DeleteBusinessDb(businesses, invoices, recurring, files,
                                      business_id, cascade, reassign_to)} :
             /\ businesses' = d.businesses
             /\ invoices' = d.invoices
             /\ recurring' = d.recurring
             /\ files' = IF cascade /\ ~d.raised
                         THEN {f \in d.files : f.biz # b.name} ELSE d.files
             /\ resp' = [op |-> "delete_business", after |-> resp.op,
                         id |-> business_id, cascade |-> cascade,
                         reassign_to |-> reassign_to,
                         status |-> IF ~d.raised THEN 200
                                    ELSE IF cascade THEN 500 ELSE 400]
    /\ calls' = calls + 1
    /\ UNCHANGED <<nextBusinessRow, nextInvoiceRow, nextRecurringRow, today, clock,
                   threads, running, dropped>>

BusinessIds == {b.id : b \in businesses}

BizRecurringInputs ==
    {RecurringInput("expense", "monthly", 1, MkDate(2025, 2, 1), NoDate),
     RecurringInput("expense", "monthly", 1, MkDate(2025, 4, 1), NoDate)}

BizNext ==
    \/ \E name \in BizNames, prefix \in BizPrefixes : CreateBusiness(name, prefix)
    \/ \E id \in BusinessIds, cascade \in BOOLEAN,
          reassign_to \in {NoBusiness} \cup BusinessIds :
          DeleteBusiness(id, cascade, reassign_to)
    \/ \E id \in BusinessIds, type \in {"expense", "income"}, render_ok \in BOOLEAN :
          CreateManual([ManualInput EXCEPT !.business_id = id], type, render_ok)
    \/ \E id \in BusinessIds, data \in BizRecurringInputs :
          CreateRecurring([data EXCEPT !.business_id = id])
    \/ \E id \in RowIds : Delete(id)

SpecBiz == BizInit /\ [][BizNext]_vars

\* the business has a record or a recurring definition
HasDependents(business_id) ==
    \/ \E i \in invoices : i.business_id = business_id
    \/ \E r \in recurring : r.business_id = business_id

\* C9: delete_business on a business with at least one dependent record or
\* recurring definition, with neither cascade nor reassign_to, raises (the
\* route answers 400) and leaves businesses, records and recurring
\* definitions unchanged
C9_BlockedDeleteChangesNothing ==
    [][(/\ resp'.op = "delete_business"
        /\ HasDependents(resp'.id)
        /\ ~resp'.cascade /\ resp'.reassign_to = NoBusiness)
       => /\ resp'.status = 400
          /\ businesses' = businesses
          /\ invoices' = invoices
          /\ recurring' = recurring
          /\ files' = files]_vars

\* a delete without cascade and reassign_to has just been refused for a
\* business that has dependents and is still there
C9_Witness ==
    /\ resp.op = "delete_business" /\ resp.status = 400
    /\ ~resp.cascade /\ resp.reassign_to = NoBusiness
    /\ HasDependents(resp.id)
    /\ \E b \in businesses : b.id = resp.id

---------------------------------------------------------------------------
(* Watcher specification: whole passes of _process_inbox_files over the    *)
(* inbox of the business                                                    *)

MaxWatched == 2

\* what the extraction gives in a pass: complete, without category, failure
WatchResults ==
    {Extraction("ocr", SaveDay, 1250, "Buero", "Beleg"),
     Extraction("ocr", SaveDay, 1250, "NULL", "Beleg"),
     [text |-> "raise"]}

\* the file would be taken by the loop: it has no record, or its record is
\* neither processed nor has OCR text
WouldProcess(invs, p) ==
    \A i \in invs : i.file_path = p => (~i.processed /\ ~TruthyText(i.ocr_text))

\* the body of the loop over files_with_type for the file p, where the
\* failure of _auto_process_file would leave the loop
ProcessInboxFile_StopOnFailure(st, bizs, b, p, result, conv_ok, move_ok) ==
    LET known == {i \in st.invoices : i.file_path = p}
        row == IF known # {} THEN CHOOSE i \in known : TRUE
               ELSE [NewInvoiceRow(st.nextRow) EXCEPT
                         !.file_path = p, !.business_id = b.id]
        ran == known = {} \/ (~row.processed /\ ~TruthyText(row.ocr_text))
    IN  The({[invoices |-> a.invoices, files |-> a.files,
              nextRow |-> IF known = {} THEN st.nextRow + 1 ELSE st.nextRow,
              outcomes |-> Append(st.outcomes,
                              [path |-> p, id |-> row.id, ran |-> ran,
                               extracted |-> a.extracted, result |-> result]),
              stopped |-> ran /\ ~a.extracted]
             : a \in {IF ran
                      THEN AutoProcessFile(SetRow(st.invoices, row), st.files, bizs,
                               b, row.id, p.folder, result, conv_ok, move_ok)
                      ELSE [invoices |-> st.invoices, files |-> st.files,
                            extracted |-> FALSE]}})

\* the body of the loop over files_with_type for the file p: skip a processed
\* record, process a registered one without OCR text, register and process
\* a new file; _auto_process_file catches its own failures
ProcessInboxFile(st, bizs, b, p, result, conv_ok, move_ok) ==
    LET known == {i \in st.invoices : i.file_path = p}
        row == IF known # {} THEN CHOOSE i \in known : TRUE
               ELSE [NewInvoiceRow(st.nextRow) EXCEPT
                         !.file_path = p, !.business_id = b.id]
        ran == known = {} \/ (~row.processed /\ ~TruthyText(row.ocr_text))
    IN  The({[invoices |-> a.invoices, files |-> a.files,
              nextRow |-> IF known = {} THEN st.nextRow + 1 ELSE st.nextRow,
              outcomes |-> Append(st.outcomes,
                              [path |-> p, id |-> row.id, ran |-> ran,
                               extracted |-> a.extracted, result |-> result]),
              stopped |-> FALSE]
             : a \in {IF ran
                      THEN AutoProcessFile(SetRow(st.invoices, row), st.files, bizs,
                               b, row.id, p.folder, result, conv_ok, move_ok)
                      ELSE [invoices |-> st.invoices, files |-> st.files,
                            extracted |-> FALSE]}})

\* for file_path, doc_type in files_with_type, inside the try of the business
RECURSIVE ProcessInboxFiles(_, _, _, _, _, _, _)
ProcessInboxFiles(st, bizs, b, listing, results, conv_ok, move_ok) ==
    IF listing = <<>> \/ st.stopped THEN st
    ELSE ProcessInboxFiles(
            ProcessInboxFile(st, bizs, b, Head(listing), results[Head(listing)],
                             conv_ok, move_ok),
            bizs, b, Tail(listing), results, conv_ok, move_ok)

\* FolderManager.get_inbox_files: the files of both folders with a known
\* suffix
InboxListing(fs, b) == {p \in fs : InInbox(p) /\ p.biz = b.name /\ p.ext \in DropExts}

\* the orders in which the listing may come (it is sorted by mtime)
Orders(S) ==
    {o \in [1..Cardinality(S) -> S] : \A i, j \in 1..Cardinality(S) : i # j => o[i] # o[j]}

WatchInit ==
    /\ businesses = {TheBusiness}
    /\ nextBusinessRow = 2
    /\ invoices = {}
    /\ recurring = {}
    /\ files = {}
    /\ nextInvoiceRow = 1
    /\ nextRecurringRow = 1
    /\ today = FirstDay
    /\ clock = 0
    /\ calls = 0
    /\ threads = <<>>
    /\ running = TRUE
    /\ dropped = 0
    /\ resp = [op |-> "init", after |-> "init"]

\* the user puts a document into an inbox folder
DropInto(folder, ext) ==
    /\ dropped < MaxWatched
    /\ InboxFile(TheBusiness.name, folder, "scan", ext) \notin files
    /\ files' = files \cup {InboxFile(TheBusiness.name, folder, "scan", ext)}
    /\ dropped' = dropped + 1
    /\ resp' = [op |-> "drop", after |-> resp.op]
    /\ UNCHANGED <<businesses, nextBusinessRow, invoices, recurring, nextInvoiceRow,
                   nextRecurringRow, today, clock, calls, threads, running>>

\* one pass of AutoProcessor._process_inbox_files; results gives the outcome
\* of the extraction for each file the loop takes
WatcherPass(order, results, conv_ok, move_ok) ==
    /\ running
    /\ calls < MaxOps
    /\ \A q \in DOMAIN results :
          ~WouldProcess(invoices, q) => results[q] = [text |-> "raise"]
    /\ \E st \in {ProcessInboxFiles(
                     [invoices |-> invoices, files |-> files,
                      nextRow |-> nextInvoiceRow, outcomes |-> <<>>,
                      stopped |-> FALSE],
                     businesses, TheBusiness, order, results, conv_ok, move_ok)} :
         /\ invoices' = st.invoices
         /\ files' = st.files
         /\ nextInvoiceRow' = st.nextRow
         /\ resp' = [op |-> "pass", after |-> resp.op, outcomes |-> st.outcomes,
                     listing |-> order]
    /\ calls' = calls + 1
    /\ UNCHANGED <<businesses, nextBusinessRow, recurring, nextRecurringRow, today,
                   clock, threads, running, dropped>>

WatchNext ==
    \/ \E folder \in Folders, ext \in DropExts : DropInto(folder, ext)
    \/ \E order \in Orders(InboxListing(files, TheBusiness)),
          results \in [InboxListing(files, TheBusiness) -> WatchResults],
          conv_ok \in BOOLEAN, move_ok \in BOOLEAN :
          WatcherPass(order, results, conv_ok, move_ok)
    \/ ToggleAutoProcessor

SpecWatch == WatchInit /\ [][WatchNext]_vars

\* a step that is one Watcher pass
PassStep == calls' = calls + 1 /\ resp'.op = "pass"

\* the record of an outcome as it was before the pass: a new file has the
\* record add_file creates
RowBefore(o) ==
    IF HasRow(invoices, o.id) THEN RowOf(invoices, o.id) ELSE NewInvoiceRow(o.id)

\* the outcomes of the pass in which _auto_process_file ran and the
\* extraction (or the image conversion before it) failed
FailedOutcomes(r) ==
    {r.outcomes[k] : k \in {j \in DOMAIN r.outcomes :
                              r.outcomes[j].ran /\ ~r.outcomes[j].extracted}}

\* C12 as stated: when the extraction fails for a file during a Watcher pass,
\* the record keeps the lifecycle flags it had before the attempt and the next
\* pass would take the file again, and every file of the listing gets its turn
C12_FailedExtractionRetried ==
    [][PassStep =>
         /\ \A o \in FailedOutcomes(resp') :
               /\ RowOf(invoices', o.id).processed = RowBefore(o).processed
               /\ RowOf(invoices', o.id).reviewed = RowBefore(o).reviewed
               /\ RowOf(invoices', o.id).is_archived = RowBefore(o).is_archived
               /\ WouldProcess(invoices', RowOf(invoices', o.id).file_path)
         /\ Len(resp'.outcomes) = Len(resp'.listing)]_vars

\* C12 amended: when the extraction fails for a file during a Watcher pass,
\* the record is stored processed and not reviewed with its archived flag
\* unchanged, no later pass takes the file again (a file whose record is
\* processed or has OCR text is skipped and its record left as it is), and
\* every file of the listing gets its turn in the pass
C12_FailedExtractionMarkedProcessed ==
    [][PassStep =>
         /\ \A o \in FailedOutcomes(resp') :
               /\ RowOf(invoices', o.id).processed
               /\ ~RowOf(invoices', o.id).reviewed
               /\ RowOf(invoices', o.id).is_archived = RowBefore(o).is_archived
               /\ ~WouldProcess(invoices', RowOf(invoices', o.id).file_path)
         /\ \A k \in DOMAIN resp'.outcomes :
               (/\ HasRow(invoices, resp'.outcomes[k].id)
                /\ ~WouldProcess(invoices, resp'.outcomes[k].path))
               => /\ ~resp'.outcomes[k].ran
                  /\ RowOf(invoices', resp'.outcomes[k].id)
                        = RowOf(invoices, resp'.outcomes[k].id)
         /\ Len(resp'.outcomes) = Len(resp'.listing)
         /\ \A k \in DOMAIN resp'.outcomes :
               resp'.outcomes[k].path = resp'.listing[k]]_vars

\* a pass over two files in which the extraction failed for the first and
\* the second was still processed and its fields extracted
C12_Witness ==
    /\ resp.op = "pass"
    /\ Len(resp.outcomes) = 2
    /\ resp.outcomes[1].ran /\ ~resp.outcomes[1].extracted
    /\ resp.outcomes[1].result.text = "raise"
    /\ RowOf(invoices, resp.outcomes[1].id).processed
    /\ resp.outcomes[2].ran /\ resp.outcomes[2].extracted

---------------------------------------------------------------------------
(* Further properties of the lifecycle *)

\* the body of a save lacks a mandatory field: data.get(field) is falsy for
\* date, amount or category
LacksMandatory(data) ==
    ~(TruthyDate(data.date) /\ TruthyAmount(data.amount) /\ TruthyText(data.category))

\* C13: a manual save (POST /api/invoice/<id> or POST /api/income/<id>) on a
\* record, whose body lacks date, amount or category, is answered with the
\* validation error (400) and changes no stored field of the record
C13_IncompleteSaveRejected ==
    [][(/\ calls' = calls + 1
        /\ resp'.op \in SaveOps
        /\ HasRow(invoices, resp'.id)
        /\ LacksMandatory(resp'.data))
       => /\ resp'.status = 400
          /\ RowOf(invoices', resp'.id) = RowOf(invoices, resp'.id)]_vars

\* the stored path names an artifact in the archive (a .virtual path names
\* no file)
IsArtifact(p) == p # NoPath /\ p.root = "Archive" /\ p.ext # "virtual"

\* the record `after` got its archive artifact in this step
NewlyArchived(after) ==
    /\ IsArtifact(after.file_path)
    /\ \A before \in invoices : before.id = after.id => ~IsArtifact(before.file_path)

\* the canonical filename of a record:
\* {YYMMDD}_{Identifier}_{Category}_{Description[:30]}_{Amount:.2f}
CanonicalNameOf(i) ==
    CanonicalName(i.date, i.invoice_id, i.category,
                  IF i.description = "NULL" THEN "" ELSE i.description, i.amount)

\* C14: on every archival path (Watcher auto-archive, manual review save,
\* manual create, placeholder pass) the artifact of the record is named by
\* the same canonical function of the record's date, identifier, category,
\* description and amount
C14_OneCanonicalName ==
    [][\A after \in invoices' :
          NewlyArchived(after) => after.file_path.name = CanonicalNameOf(after)]_vars

\* C15: when a save edits the date, amount, category or description of an
\* Archived record whose artifact is in the archive, the artifact is renamed
\* in place (same directory, no other file created or removed) to the
\* canonical filename of the edited values, the amount with two decimals
C15_EditRenamesToCanonical ==
    [][(/\ calls' = calls + 1
        /\ resp'.op \in SaveOps /\ resp'.status = 200
        /\ HasRow(invoices, resp'.id))
       => LET before == RowOf(invoices, resp'.id)
              after == RowOf(invoices', resp'.id)
          IN  (/\ before.is_archived /\ InArchive(before.file_path)
               /\ PathExists(files, before.file_path)
               /\ Edited(before, after))
              => /\ after.file_path.name = CanonicalNameOf(after)
                 /\ [after.file_path EXCEPT !.name = before.file_path.name]
                       = before.file_path
                 /\ files' = (files \ {before.file_path}) \cup {after.file_path}]_vars

---------------------------------------------------------------------------
(* Further properties of the schedule generator *)

\* the dates of the records materialized for a definition
MaterializedDates(invs, rec) ==
    {i.date : i \in {j \in invs : j.recurring_transaction_id = rec.id}}

\* C16: once a generator invocation with today on or after the end date of a
\* definition has completed, the records of the definition are exactly its
\* occurrences up to the end date (the start, then one frequency step after
\* the other), one record each, and none lies after the end date
C16_ExactlyOccurrencesUpToEnd ==
    resp.op \in GenOps =>
        \A r \in recurring :
            (r.active /\ r.end_date # NoDate /\ today >= r.end_date) =>
                /\ MaterializedDates(invoices, r) = Scheduled(r, r.end_date)
                /\ Cardinality({j \in invoices : j.recurring_transaction_id = r.id})
                      = Cardinality(Scheduled(r, r.end_date))
                /\ \A d \in MaterializedDates(invoices, r) : d <= r.end_date

\* the records materialized for a definition
RecordsOf(invs, rec) == {j \in invs : j.recurring_transaction_id = rec.id}

\* C17: every record materialized for a definition with a day_of_month lies
\* on that day when its month has the day and on the last day of its month
\* when it has not, and every generator invocation runs to its end for every
\* active definition
C17_ShortMonthOnLastDay ==
    /\ \A r \in recurring : r.day_of_month # 0 =>
          \A i \in RecordsOf(invoices, r) :
             Day(i.date) = IF r.day_of_month <= DaysInMonth(Year(i.date), Month(i.date))
                           THEN r.day_of_month
                           ELSE DaysInMonth(Year(i.date), Month(i.date))
    /\ resp.op \in GenOps =>
          \A r \in recurring : r.active => r.id \in DOMAIN resp.processed

\* a definition with day 31 has a record on 2025-02-28, the last day of a
\* month without a 31st, and one on 2025-03-31, the configured day again
C17_Witness ==
    /\ resp.op \in GenOps
    /\ \E r \in recurring :
          /\ r.day_of_month = 31
          /\ MkDate(2025, 2, 28) \in MaterializedDates(invoices, r)
          /\ MkDate(2025, 3, 31) \in MaterializedDates(invoices, r)

---------------------------------------------------------------------------
(* Allocator specification: calls of get_next_invoice_id and                *)
(* get_next_income_id on a ledger whose sequence numbers may have gaps      *)

MaxSeq == 3

IdKinds == {"ARE", "ERE"}
IdYears == {2025, 2026}

\* a record of the business that holds the identifier kind-TB-2025-seq
LedgerRow(kind, seq) ==
    [NewInvoiceRow(IF kind = "ARE" THEN seq ELSE MaxSeq + seq) EXCEPT
        !.business_id = TheBusiness.id,
        !.invoice_id = MakeId(kind, TheBusiness.prefix, 2025, seq),
        !.date = SaveDay, !.amount = 1250, !.category = "Buero",
        !.description = "Beleg", !.reviewed = TRUE, !.processed = TRUE]

\* the ledger in which the expense records of 2025 use the numbers in are and
\* the income records those in ere
Ledger(are, ere) ==
    {LedgerRow("ARE", n) : n \in are} \cup {LedgerRow("ERE", n) : n \in ere}

IdsInit ==
    /\ businesses = {TheBusiness}
    /\ nextBusinessRow = 2
    /\ \E are \in SUBSET (1..MaxSeq), ere \in SUBSET (1..MaxSeq) :
          invoices = Ledger(are, ere)
    /\ recurring = {}
    /\ files = {}
    /\ nextInvoiceRow = 2 * MaxSeq + 1
    /\ nextRecurringRow = 1
    /\ today = FirstDay
    /\ clock = 0
    /\ calls = 0
    /\ threads = <<>>
    /\ running = TRUE
    /\ dropped = 0
    /\ resp = [op |-> "init", after |-> "init"]

\* a call of get_next_invoice_id (kind ARE) or get_next_income_id (kind ERE):
\* it reads the ledger and returns an identifier
CallAllocator(kind, year, business_id) ==
    /\ calls < MaxCalls
    /\ resp' = [op |-> "allocate", after |-> resp.op, kind |-> kind, year |-> year,
                business_id |-> business_id,
                next_id |-> IF kind = "ERE"
                            THEN get_next_income_id(invoices, businesses, year, business_id)
                            ELSE get_next_invoice_id(invoices, businesses, year, business_id)]
    /\ calls' = calls + 1
    /\ UNCHANGED <<businesses, nextBusinessRow, invoices, recurring, files,
                   nextInvoiceRow, nextRecurringRow, today, clock, threads, running,
                   dropped>>

\* the caller inserts a record that holds the identifier it was given
StoreIdentifier ==
    /\ resp.op = "allocate"
    /\ invoices' = invoices \cup
          {[NewInvoiceRow(nextInvoiceRow) EXCEPT
               !.business_id = resp.business_id, !.invoice_id = resp.next_id,
               !.date = MkDate(resp.year, 2, 10), !.amount = 1250,
               !.category = "Buero", !.description = "Beleg",
               !.reviewed = TRUE, !.processed = TRUE]}
    /\ nextInvoiceRow' = nextInvoiceRow + 1
    /\ resp' = [op |-> "store", after |-> resp.op]
    /\ UNCHANGED <<businesses, nextBusinessRow, recurring, files, nextRecurringRow,
                   today, clock, calls, threads, running, dropped>>

IdsNext ==
    \/ \E kind \in IdKinds, year \in IdYears, business_id \in {0, TheBusiness.id} :
          CallAllocator(kind, year, business_id)
    \/ StoreIdentifier

SpecIds == IdsInit /\ [][IdsNext]_vars

\* C18: two successive calls of get_next_invoice_id (respectively
\* get_next_income_id) for the same year and business, with no other
\* operation in between, return two different identifiers
C18_SuccessiveCallsDiffer ==
    [][(/\ resp.op = "allocate" /\ resp'.op = "allocate"
        /\ calls' = calls + 1
        /\ resp'.kind = resp.kind
        /\ resp'.year = resp.year
        /\ resp'.business_id = resp.business_id)
       => resp'.next_id # resp.next_id]_vars

\* the sequence numbers in use for the (kind, year, business) of a call
UsedSeqs(invs, bizs, r) ==
    {i.invoice_id.seq :
        i \in {j \in invs : /\ j.invoice_id.kind = r.kind
                            /\ j.invoice_id.year = r.year
                            /\ j.invoice_id.prefix = BusinessPrefix(bizs, r.business_id)}}

\* C19 as stated: the sequence number of the identifier the allocator returns
\* is the smallest positive integer that no record of that (kind, year,
\* business) uses
C19_SmallestUnusedNumber ==
    resp.op = "allocate" =>
        /\ resp.next_id.seq >= 1
        /\ resp.next_id.seq \notin UsedSeqs(invoices, businesses, resp)
        /\ \A n \in 1..(resp.next_id.seq - 1) : n \in UsedSeqs(invoices, businesses, resp)

\* C19 amended: the identifier the allocator returns is in use by no record,
\* and its sequence number is one more than the largest number in use for
\* that (kind, year, business), or 1 when none is in use
C19_LargestNumberPlusOne ==
    resp.op = "allocate" =>
        /\ \A i \in invoices : i.invoice_id # resp.next_id
        /\ resp.next_id.kind = resp.kind /\ resp.next_id.year = resp.year
        /\ resp.next_id.prefix = BusinessPrefix(businesses, resp.business_id)
        /\ IF UsedSeqs(invoices, businesses, resp) = {}
           THEN resp.next_id.seq = 1
           ELSE /\ resp.next_id.seq - 1 \in UsedSeqs(invoices, businesses, resp)
                /\ \A n \in UsedSeqs(invoices, businesses, resp) : n < resp.next_id.seq

\* the allocator was called while the numbers 1 and 3 were in use and 2 was
\* not: it returned 4
C19_Witness ==
    /\ resp.op = "allocate"
    /\ {1, 3} \subseteq UsedSeqs(invoices, businesses, resp)
    /\ 2 \notin UsedSeqs(invoices, businesses, resp)
    /\ resp.next_id.seq = 4

\* the prefix an identifier of a record of the given type starts with
KindOf(is_income) == IF is_income THEN "ERE" ELSE "ARE"

\* the identifier of row id changed in this step to one that is set
AssignedIn(id) ==
    /\ HasRow(invoices', id)
    /\ RowOf(invoices', id).invoice_id # NoId
    /\ HasRow(invoices, id) => RowOf(invoices, id).invoice_id # RowOf(invoices', id).invoice_id

\* C20: on every path that assigns an identifier, an income record gets one
\* that starts with ERE and an expense record one that starts with ARE: the
\* Watcher by the inbox folder of the file, the review save by its endpoint,
\* the manual create by the type of the request, the generator by the type
\* of the definition
C20_PrefixMatchesType ==
    [][/\ (resp'.op = "watcher" /\ calls' = calls + 1 /\ AssignedIn(resp'.id))
          => RowOf(invoices', resp'.id).invoice_id.kind
                = KindOf(RowOf(invoices', resp'.id).file_path.folder = "Einnahmen")
       /\ (resp'.op \in SaveOps /\ calls' = calls + 1 /\ AssignedIn(resp'.id))
          => RowOf(invoices', resp'.id).invoice_id.kind
                = KindOf(resp'.op = "save_income")
       /\ (resp'.op = "create" /\ calls' = calls + 1 /\ AssignedIn(resp'.id))
          => RowOf(invoices', resp'.id).invoice_id.kind
                = KindOf(resp'.type = "income")
       /\ \A i \in invoices' :
             (i.recurring_transaction_id # 0 /\ ~HasRow(invoices, i.id))
             => \A r \in recurring' : r.id = i.recurring_transaction_id
                   => i.invoice_id.kind = KindOf(r.type = "income")]_vars

\* C21: when the create-manual operation has returned with success, the record
\* it created is processed, reviewed and archived (archived flag set) and
\* carries an identifier
C21_ManualCreateIsArchived ==
    (resp.op = "create" /\ resp.status = 200) =>
        /\ HasRow(invoices, resp.id)
        /\ RowOf(invoices, resp.id).processed
        /\ RowOf(invoices, resp.id).reviewed
        /\ RowOf(invoices, resp.id).is_archived
        /\ RowOf(invoices, resp.id).invoice_id # NoId

---------------------------------------------------------------------------
(* Further properties of the businesses *)

\* C22: in every reachable state, every record that is archived and has an
\* artifact path has that path under Archive/{name of the record's current
\* business}/{folder of the record's kind}/{year of the record's date}/
C22_ArchivedPathKeyedByBusiness ==
    \A i \in invoices :
        (i.is_archived /\ i.file_path # NoPath) =>
            /\ i.file_path.root = "Archive"
            /\ \E b \in businesses : b.id = i.business_id /\ i.file_path.biz = b.name
            /\ i.file_path.folder = TypeFolder(i.invoice_id.kind = "ERE")
            /\ i.file_path.year = Year(i.date)

\* the step is a delete_business request for an existing business
DeleteStep == calls' = calls + 1 /\ resp'.op = "delete_business"

\* C23: delete_business with cascade on a business with dependents removes
\* every record and every recurring definition of that business and the
\* business itself, whatever the state of those records, and leaves the
\* data of the other businesses unchanged
C23_CascadeRemovesEverything ==
    [][(DeleteStep /\ resp'.cascade /\ HasDependents(resp'.id))
       => /\ \A i \in invoices' : i.business_id # resp'.id
          /\ \A r \in recurring' : r.business_id # resp'.id
          /\ businesses' = {b \in businesses : b.id # resp'.id}
          /\ {i \in invoices' : i.business_id # resp'.id}
                = {i \in invoices : i.business_id # resp'.id}
          /\ {r \in recurring' : r.business_id # resp'.id}
                = {r \in recurring : r.business_id # resp'.id}]_vars

\* the number of records of a business
RecordCount(invs, business_id) == Cardinality({i \in invs : i.business_id = business_id})

\* C24: delete_business with reassign_to = B, B another business and no
\* cascade, succeeds, gives every record and every recurring definition of
\* the deleted business to B and changes no other field of them, leaves the
\* other records and definitions as they are, so that B's record count grows
\* by exactly the deleted business's count, and removes the deleted business
C24_ReassignMovesEverything ==
    [][(/\ DeleteStep /\ ~resp'.cascade
        /\ resp'.reassign_to # NoBusiness /\ resp'.reassign_to # resp'.id)
       => /\ resp'.status = 200
          /\ businesses' = {b \in businesses : b.id # resp'.id}
          /\ Cardinality(invoices') = Cardinality(invoices)
          /\ \A i \in invoices : \E j \in invoices' :
                /\ j = [i EXCEPT !.business_id = j.business_id]
                /\ j.business_id = IF i.business_id = resp'.id
                                   THEN resp'.reassign_to ELSE i.business_id
          /\ Cardinality(recurring') = Cardinality(recurring)
          /\ \A r \in recurring : \E q \in recurring' :
                /\ q = [r EXCEPT !.business_id = q.business_id]
                /\ q.business_id = IF r.business_id = resp'.id
                                   THEN resp'.reassign_to ELSE r.business_id
          /\ RecordCount(invoices', resp'.reassign_to)
                = RecordCount(invoices, resp'.reassign_to)
                  + RecordCount(invoices, resp'.id)
          /\ RecordCount(invoices', resp'.id) = 0
          /\ files' = files]_vars

\* a business with a record and a recurring definition has just been deleted
\* with reassign_to = B: B exists and now owns a record numbered under the
\* deleted business's prefix and a recurring definition
C24_Witness ==
    /\ resp.op = "delete_business" /\ resp.status = 200 /\ ~resp.cascade
    /\ resp.reassign_to # NoBusiness /\ resp.reassign_to # resp.id
    /\ \A b \in businesses : b.id # resp.id
    /\ \E b \in businesses :
          /\ b.id = resp.reassign_to
          /\ \E i \in invoices : i.business_id = b.id /\ i.invoice_id.prefix # b.prefix
          /\ \E r \in recurring : r.business_id = b.id

\* ---------------------------------------------------------------------------
\* Business names specification: the businesses table under create, update
\* and delete requests
\* ---------------------------------------------------------------------------

NameInputs == BizNames \cup {"B3", NoText}
PrefixInputs == BizPrefixes \cup {"T3"}

NamesNext ==
    \/ \E name \in NameInputs \ {NoText}, prefix \in PrefixInputs :
          CreateBusiness(name, prefix)
    \/ \E id \in 1..MaxBusinesses, name \in NameInputs, prefix \in PrefixInputs :
          UpdateBusiness(id, name, prefix)
    \/ \E id \in BusinessIds : DeleteBusiness(id, FALSE, NoBusiness)

SpecNames == BizInit /\ [][NamesNext]_vars

\* another business than `business_id` holds the name or the prefix
TakenByOther(business_id, name, prefix) ==
    \E b \in businesses : b.id # business_id /\ (b.name = name \/ b.prefix = prefix)

\* C25: no two businesses share a name or a prefix, before and after every
\* step; a create_business whose name or prefix is taken, and an
\* update_business of a business whose new name or prefix is taken by another
\* business, is answered with an error and leaves the businesses table unchanged
C25_NamesAndPrefixesUnique ==
    [][/\ \A a, b \in businesses :
             a # b => (a.id # b.id /\ a.name # b.name /\ a.prefix # b.prefix)
       /\ \A a, b \in businesses' :
             a # b => (a.id # b.id /\ a.name # b.name /\ a.prefix # b.prefix)
       /\ (resp'.op = "create_business"
           /\ TakenByOther(NoBusiness, resp'.name, resp'.prefix))
          => (resp'.status = 400 /\ businesses' = businesses)
       /\ (resp'.op = "update_business"
           /\ resp'.id \in BusinessIds
           /\ TakenByOther(resp'.id, resp'.name, resp'.prefix))
          => (resp'.status = 500 /\ businesses' = businesses)]_vars

\* an update that asks for the prefix of another business, under a free
\* name, has just been refused, and both businesses are there
C25_Witness ==
    /\ resp.op = "update_business" /\ resp.status = 500
    /\ \E a, b \in businesses :
          /\ a.id = resp.id /\ b.id # a.id
          /\ b.prefix = resp.prefix /\ b.name # resp.name /\ a.name # resp.name
          /\ a.prefix # resp.prefix

\* ---------------------------------------------------------------------------
\* Worker specification: AutoProcessor.start, stop and _worker_loop, and the
\* main program that starts the worker, serves requests and stops it on the
\* way out. threads[1] is the main thread, the later entries are the worker
\* threads in the order in which start() created them.
\* ---------------------------------------------------------------------------

MainThread == 1

\* a worker thread as threading.Thread(target=self._worker_loop) starts it
NewWorker == [pc |-> "check", left |-> 0]

\* AutoProcessor.start on a processor that is not running
StartWorker(ths) == Append(ths, NewWorker)

WorkerIds == 2..(MaxOps + 2)

WorkerInit ==
    /\ businesses = {TheBusiness}
    /\ nextBusinessRow = 2
    /\ invoices = {}
    /\ recurring = {}
    /\ files = {}
    /\ nextInvoiceRow = 1
    /\ nextRecurringRow = 1
    /\ today = FirstDay
    /\ clock = 0
    /\ calls = 0
    /\ threads = <<[pc |-> "boot", left |-> 0]>>
    /\ running = FALSE
    /\ dropped = 0
    /\ resp = [op |-> "init", after |-> "init"]

\* the first main block: auto_processor.start() before the server runs
MainBoot ==
    /\ threads[MainThread].pc = "boot"
    /\ running' = TRUE
    /\ threads' = StartWorker([threads EXCEPT ![MainThread].pc = "serving"])
    /\ resp' = [op |-> "start", after |-> resp.op]
    /\ UNCHANGED <<businesses, invoices, recurring, files, nextInvoiceRow,
                   nextRecurringRow, today, clock, calls, dropped, nextBusinessRow>>

\* POST /api/auto-processor/toggle: stop() when running, start() otherwise;
\* stop() sets the flag and waits at most five seconds in join
Toggle ==
    /\ threads[MainThread].pc = "serving"
    /\ calls < MaxOps
    /\ calls' = calls + 1
    /\ running' = ~running
    /\ threads' = IF running THEN threads ELSE StartWorker(threads)
    /\ resp' = [op |-> IF running THEN "stop" ELSE "start", after |-> resp.op]
    /\ UNCHANGED <<businesses, invoices, recurring, files, nextInvoiceRow,
                   nextRecurringRow, today, clock, dropped, nextBusinessRow>>

\* app.run returns and the finally clause calls auto_processor.stop()
Shutdown ==
    /\ threads[MainThread].pc = "serving"
    /\ running' = FALSE
    /\ threads' = [threads EXCEPT ![MainThread].pc = "stopping"]
    /\ resp' = [op |-> "stop", after |-> resp.op]
    /\ UNCHANGED <<businesses, invoices, recurring, files, nextInvoiceRow,
                   nextRecurringRow, today, clock, calls, dropped, nextBusinessRow>>

\* join(timeout=5) has returned, the main thread ends and the interpreter
\* exits: a daemon thread that is still alive ends where it is
ProcessExit ==
    /\ threads[MainThread].pc = "stopping"
    /\ threads' = [t \in DOMAIN threads |->
                     IF t = MainThread THEN [threads[t] EXCEPT !.pc = "exited"]
                     ELSE IF threads[t].pc = "exited" THEN threads[t]
                     ELSE [threads[t] EXCEPT !.pc = "killed"]]
    /\ resp' = [op |-> "exit", after |-> resp.op]
    /\ UNCHANGED <<businesses, invoices, recurring, files, nextInvoiceRow,
                   nextRecurringRow, today, clock, calls, running, dropped,
                   nextBusinessRow>>

\* _worker_loop, `while self.running`: the flag is read here and nowhere else
WorkerCheck(t) ==
    /\ t \in DOMAIN threads /\ t # MainThread
    /\ threads[t].pc = "check"
    /\ threads' = [threads EXCEPT ![t] =
                     IF running THEN [pc |-> "pass", left |-> MaxWatched]
                     ELSE [pc |-> "exited", left |-> 0]]
    /\ UNCHANGED <<businesses, invoices, recurring, files, nextInvoiceRow,
                   nextRecurringRow, today, clock, calls, running, dropped,
                   nextBusinessRow, resp>>

\* _process_inbox_files, one file of the pass at a time; after the last one
\* the worker is in time.sleep(self.check_interval)
WorkerPass(t) ==
    /\ t \in DOMAIN threads /\ t # MainThread
    /\ threads[t].pc = "pass"
    /\ threads' = [threads EXCEPT ![t] =
                     IF threads[t].left > 0 THEN [@ EXCEPT !.left = @ - 1]
                     ELSE [@ EXCEPT !.pc = "sleep"]]
    /\ UNCHANGED <<businesses, invoices, recurring, files, nextInvoiceRow,
                   nextRecurringRow, today, clock, calls, running, dropped,
                   nextBusinessRow, resp>>

\* the sleep is over, back to the head of the loop
WorkerWake(t) ==
    /\ t \in DOMAIN threads /\ t # MainThread
    /\ threads[t].pc = "sleep"
    /\ threads' = [threads EXCEPT ![t].pc = "check"]
    /\ UNCHANGED <<businesses, invoices, recurring, files, nextInvoiceRow,
                   nextRecurringRow, today, clock, calls, running, dropped,
                   nextBusinessRow, resp>>

WorkerStep(t) == WorkerCheck(t) \/ WorkerPass(t) \/ WorkerWake(t)

WorkerNext ==
    \/ MainBoot
    \/ Toggle
    \/ Shutdown
    \/ ProcessExit
    \/ \E t \in WorkerIds : WorkerCheck(t)
    \/ \E t \in WorkerIds : WorkerPass(t)
    \/ \E t \in WorkerIds : WorkerWake(t)

SpecWorker == WorkerInit /\ [][WorkerNext]_vars

\* a live thread keeps being scheduled
SpecWorkerFair == SpecWorker /\ \A t \in WorkerIds : WF_vars(WorkerStep(t))

\* where thread t is, "none" before start() has created it
PcOf(t) == IF t \in DOMAIN threads THEN threads[t].pc ELSE "none"

\* worker t is in a pass and stop() has been called since the pass began
InFlightAtStop(t) == PcOf(t) = "pass" /\ ~running

\* C26: a pass that is in flight when stop() is called runs to completion
\* (the worker reaches the sleep after the pass), and the worker then exits
\* unless start() is called again
C26_StopLetsPassFinish ==
    \A t \in WorkerIds :
        /\ InFlightAtStop(t) ~> (PcOf(t) = "sleep")
        /\ InFlightAtStop(t) ~> (PcOf(t) = "exited" \/ running)

\* ---------------------------------------------------------------------------
\* Definitions specification: several recurring definitions, dates that do
\* not parse, and updates of a definition between generator invocations
\* ---------------------------------------------------------------------------

MaxRules == 2

\* '2025-13-01': a string datetime.strptime(.., '%Y-%m-%d') raises on
BadDate == MkDate(2025, 13, 1)

\* strptime accepts the stored string
ParsesDate(d) ==
    /\ Month(d) \in 1..12
    /\ Day(d) \in 1..DaysInMonth(Year(d), Month(d))

\* the for-loop body raises on this definition: start_date is parsed first,
\* last_generated_date when it is set, end_date inside the while loop once a
\* candidate is not after today
RaisesOn(rec, now) ==
    \/ ~ParsesDate(rec.start_date)
    \/ rec.last_generated_date # NoDate /\ ~ParsesDate(rec.last_generated_date)
    \/ /\ rec.end_date # NoDate /\ ~ParsesDate(rec.end_date)
       /\ NextDue(rec, 0, LoopStart(rec, {}, 1).current_date).next_due <= now

\* the definitions of the snapshot the loop gets through before one raises
RECURSIVE BeforeRaise(_, _)
BeforeRaise(snapshot, now) ==
    IF snapshot = <<>> \/ RaisesOn(Head(snapshot), now) THEN <<>>
    ELSE <<Head(snapshot)>> \o BeforeRaise(Tail(snapshot), now)

\* generate_recurring_transactions on definitions whose dates may not parse:
\* there is no handler around the loop body, the exception leaves the
\* function; what was committed for the earlier definitions stays
GenerateOrRaise(invs, recs, bizs, nextRow, now) ==
    LET snapshot == ActiveNewestFirst(recs)
        good == BeforeRaise(snapshot, now)
    IN  [g |-> GenerateOver(good, bizs, now,
                   [invoices |-> invs, nextRow |-> nextRow, recurring |-> recs,
                    generated |-> <<>>, processed |-> <<>>]),
         raised |-> Len(good) < Len(snapshot)]

RuleInputs ==
    {RecurringInput("expense", "monthly", 1, MkDate(2025, 1, 1), NoDate),
     RecurringInput("expense", "monthly", 1, BadDate, NoDate),
     RecurringInput("expense", "monthly", 1, MkDate(2025, 1, 1), BadDate),
     RecurringInput("expense", "weekly", 31, MkDate(2025, 1, 31), NoDate)}

\* request bodies of PUT /api/recurring/<id>, one key each
RuleUpdates ==
    {[field |-> "last_generated_date", date |-> MkDate(2025, 1, 1), day |-> 0],
     [field |-> "day_of_month", date |-> NoDate, day |-> 1],
     [field |-> "active", date |-> NoDate, day |-> 0]}

\* POST /api/recurring: the row is inserted, then the generator runs; an
\* exception gives 500 and the placeholder pass is not reached
CreateRule(data) ==
    /\ nextRecurringRow <= MaxRules
    /\ calls < MaxOps
    /\ \E x \in {GenerateOrRaise(
                    invoices, recurring \cup {RecurringRow(nextRecurringRow, data)},
                    businesses, nextInvoiceRow, today)} :
         \E renders \in RenderBudgets(x.g.invoices) :
           \E p \in {IF x.g.generated # <<>> /\ ~x.raised
                     THEN generate_missing_placeholders(x.g.invoices, businesses,
                                                        files, today, renders)
                     ELSE [invoices |-> x.g.invoices, files |-> files,
                           generated |-> <<>>, failed |-> FALSE]} :
              /\ invoices' = p.invoices
              /\ files' = p.files
              /\ recurring' = x.g.recurring
              /\ nextInvoiceRow' = x.g.nextRow
              /\ resp' = [op |-> "create_recurring", after |-> resp.op,
                          ids |-> x.g.generated, processed |-> x.g.processed,
                          status |-> IF x.raised THEN 500 ELSE 200]
    /\ nextRecurringRow' = nextRecurringRow + 1
    /\ calls' = calls + 1
    /\ UNCHANGED <<dropped, running, businesses, nextBusinessRow, today, clock, threads>>

\* POST /api/recurring/generate on such definitions
GenerateRules ==
    /\ calls < MaxOps
    /\ \E x \in {GenerateOrRaise(invoices, recurring, businesses,
                                 nextInvoiceRow, today)} :
           /\ invoices' = x.g.invoices
           /\ recurring' = x.g.recurring
           /\ nextInvoiceRow' = x.g.nextRow
           /\ resp' = [op |-> "generate", after |-> resp.op,
                       ids |-> x.g.generated, processed |-> x.g.processed,
                       status |-> IF x.raised THEN 500 ELSE 200]
    /\ calls' = calls + 1
    /\ UNCHANGED <<dropped, running, businesses, nextBusinessRow, files,
                   nextRecurringRow, today, clock, threads>>

\* Database.update_recurring_transaction: the allowed keys of the body are
\* written as they come, last_generated_date among them
UpdateRecurringRow(rec, data) ==
    IF data.field = "last_generated_date"
    THEN [rec EXCEPT !.last_generated_date = data.date]
    ELSE IF data.field = "day_of_month" THEN [rec EXCEPT !.day_of_month = data.day]
    ELSE [rec EXCEPT !.active = FALSE]

\* PUT /api/recurring/<id>: update_recurring_transaction_api
UpdateRule(recurring_id, data) ==
    /\ calls < MaxOps
    /\ recurring' = {IF r.id = recurring_id THEN UpdateRecurringRow(r, data) ELSE r
                     : r \in recurring}
    /\ resp' = [op |-> "update_recurring", after |-> resp.op,
                ids |-> <<>>, processed |-> <<>>, status |-> 200]
    /\ calls' = calls + 1
    /\ UNCHANGED <<dropped, running, businesses, nextBusinessRow, invoices, files,
                   nextInvoiceRow, nextRecurringRow, today, clock, threads>>

RulesNext ==
    \/ Tick
    \/ \E data \in RuleInputs : CreateRule(data)
    \/ GenerateRules
    \/ \E id \in 1..MaxRules, data \in RuleUpdates : UpdateRule(id, data)

SpecRules == SchedInit /\ [][RulesNext]_vars

\* every stored date of the definition parses
DatesParse(rec) ==
    /\ ParsesDate(rec.start_date)
    /\ rec.end_date = NoDate \/ ParsesDate(rec.end_date)
    /\ rec.last_generated_date = NoDate \/ ParsesDate(rec.last_generated_date)

\* C27: an invocation of generate_recurring_transactions processes every
\* active definition whose dates parse, also when another definition of the
\* same invocation raises
C27_ErrorDoesNotStopOthers ==
    [][(resp'.op \in {"create_recurring", "generate"} /\ calls' = calls + 1)
       => \A r \in recurring' :
             (r.active /\ DatesParse(r)) => r.id \in DOMAIN resp'.processed]_vars

\* C30: no step moves last_generated_date of a definition to an earlier date
C30_CheckpointNeverMovesBack ==
    [][\A r \in recurring : \A q \in recurring' :
          (q.id = r.id /\ r.last_generated_date # NoDate)
             => q.last_generated_date >= r.last_generated_date]_vars

\* ---------------------------------------------------------------------------
\* Watcher over several businesses: one pass of _process_inbox_files with
\* errors raised while an inbox is listed or while its files are taken
\* ---------------------------------------------------------------------------

OtherBusiness == [id |-> 2, name |-> "B2", prefix |-> "T2"]

\* what the extraction gives in these passes: complete, or failure
ScanResults == {Extraction("ocr", SaveDay, 1250, "Buero", "Beleg"), [text |-> "raise"]}

\* the files of the listing the loop gets to when an exception is raised at
\* position fail_at: 0 is get_inbox_files itself, k the check of the k-th
\* file, a position after the end no exception
TakenBefore(listing, fail_at) ==
    IF fail_at > Len(listing) THEN listing ELSE SubSeq(listing, 1, fail_at - 1)

\* the part of the pass for one business, inside its try
ScanBusiness(st, bizs, b, listing, fail_at, results) ==
    The({[invoices |-> s.invoices, files |-> s.files, nextRow |-> s.nextRow,
          by |-> st.by @@ (b.id :> [listing |-> listing, outcomes |-> s.outcomes,
                                    raised |-> fail_at <= Len(listing)])]
         : s \in {ProcessInboxFiles(
                     [invoices |-> st.invoices, files |-> st.files,
                      nextRow |-> st.nextRow, outcomes |-> <<>>, stopped |-> FALSE],
                     bizs, b, TakenBefore(listing, fail_at), results, TRUE, TRUE)}})

\* the loop over the businesses where an exception would leave the loop
RECURSIVE ScanBusinesses_StopOnError(_, _, _, _, _, _)
ScanBusinesses_StopOnError(st, bizs, todo, orders, fail, results) ==
    IF todo = <<>> THEN st
    ELSE LET b == Head(todo)
             s == ScanBusiness(st, bizs, b, orders[b.id], fail[b.id], results)
         IN  IF s.by[b.id].raised
             THEN [s EXCEPT !.by = @ @@ [id \in {todo[k].id : k \in 2..Len(todo)} |->
                                            [listing |-> orders[id], outcomes |-> <<>>,
                                             raised |-> FALSE]]]
             ELSE ScanBusinesses_StopOnError(s, bizs, Tail(todo), orders, fail, results)

\* for business in businesses: the except of each business logs and the
\* loop goes on with the next one
RECURSIVE ScanBusinesses(_, _, _, _, _, _)
ScanBusinesses(st, bizs, todo, orders, fail, results) ==
    IF todo = <<>> THEN st
    ELSE ScanBusinesses(
            ScanBusiness(st, bizs, Head(todo), orders[Head(todo).id],
                         fail[Head(todo).id], results),
            bizs, Tail(todo), orders, fail, results)

ScanInit ==
    /\ businesses = {TheBusiness, OtherBusiness}
    /\ nextBusinessRow = 3
    /\ invoices = {}
    /\ recurring = {}
    /\ files = {}
    /\ nextInvoiceRow = 1
    /\ nextRecurringRow = 1
    /\ today = FirstDay
    /\ clock = 0
    /\ calls = 0
    /\ threads = <<>>
    /\ running = TRUE
    /\ dropped = 0
    /\ resp = [op |-> "init", after |-> "init"]

\* the user puts a PDF into an inbox folder of a business
DropFor(b, folder) ==
    /\ dropped < MaxWatched
    /\ InboxFile(b.name, folder, "scan", "pdf") \notin files
    /\ files' = files \cup {InboxFile(b.name, folder, "scan", "pdf")}
    /\ dropped' = dropped + 1
    /\ resp' = [op |-> "drop", after |-> resp.op]
    /\ UNCHANGED <<businesses, nextBusinessRow, invoices, recurring, nextInvoiceRow,
                   nextRecurringRow, today, clock, calls, threads, running>>

\* one pass of AutoProcessor._process_inbox_files over all businesses, in
\* the order of get_all_businesses
ScanPass(orders, fail, results) ==
    /\ running
    /\ calls < MaxOps
    /\ \A q \in DOMAIN results :
          ~WouldProcess(invoices, q) => results[q] = [text |-> "raise"]
    /\ \E st \in {ScanBusinesses(
                     [invoices |-> invoices, files |-> files,
                      nextRow |-> nextInvoiceRow, by |-> <<>>],
                     businesses, RowsById(businesses), orders, fail, results)} :
         /\ invoices' = st.invoices
         /\ files' = st.files
         /\ nextInvoiceRow' = st.nextRow
         /\ resp' = [op |-> "scan", after |-> resp.op, by |-> st.by]
    /\ calls' = calls + 1
    /\ UNCHANGED <<businesses, nextBusinessRow, recurring, nextRecurringRow, today,
                   clock, threads, running, dropped>>

ScanNext ==
    \/ \E b \in businesses, folder \in Folders : DropFor(b, folder)
    \/ \E o1 \in Orders(InboxListing(files, TheBusiness)),
          o2 \in Orders(InboxListing(files, OtherBusiness)),
          f1 \in 0..(Cardinality(InboxListing(files, TheBusiness)) + 1),
          f2 \in 0..(Cardinality(InboxListing(files, OtherBusiness)) + 1),
          results \in [{p \in files : InInbox(p)} -> ScanResults] :
          ScanPass((1 :> o1) @@ (2 :> o2), (1 :> f1) @@ (2 :> f2), results)

SpecScan == ScanInit /\ [][ScanNext]_vars

\* C28: in a Watcher pass every business whose own inbox raised no error has
\* its inbox scanned: each file of its listing gets its turn in the order of
\* the listing, and each file the loop takes is registered and handed to
\* _auto_process_file, whatever was raised for the other businesses
C28_OtherInboxesStillScanned ==
    [][(calls' = calls + 1 /\ resp'.op = "scan")
       => \A b \in businesses :
             ~resp'.by[b.id].raised =>
                /\ Len(resp'.by[b.id].outcomes) = Len(resp'.by[b.id].listing)
                /\ \A k \in DOMAIN resp'.by[b.id].outcomes :
                      /\ resp'.by[b.id].outcomes[k].path = resp'.by[b.id].listing[k]
                      /\ HasRow(invoices', resp'.by[b.id].outcomes[k].id)
                      /\ WouldProcess(invoices, resp'.by[b.id].listing[k])
                            => resp'.by[b.id].outcomes[k].ran]_vars

\* a pass in which the listing of the first business raised and the file in
\* the inbox of the second business was registered, extracted and archived
C28_Witness ==
    /\ resp.op = "scan"
    /\ resp.by[1].raised /\ resp.by[1].outcomes = <<>>
    /\ ~resp.by[2].raised
    /\ \E k \in DOMAIN resp.by[2].outcomes :
          /\ resp.by[2].outcomes[k].ran /\ resp.by[2].outcomes[k].extracted
          /\ RowOf(invoices, resp.by[2].outcomes[k].id).is_archived

\* ---------------------------------------------------------------------------
\* Delete specification: uploads and deletes on a ledger that holds the
\* record of a recurring definition
\* ---------------------------------------------------------------------------

\* the ledger after POST /api/recurring has been served once on FirstDay:
\* the generator has run, then the placeholder pass
TrashInit ==
    /\ businesses = {TheBusiness}
    /\ nextBusinessRow = 2
    /\ \E data \in LifeRecurringInputs :
         \E g \in {generate_recurring_transactions(
                       {}, {RecurringRow(1, data)}, {TheBusiness}, 1, FirstDay)} :
           \E renders \in RenderBudgets(g.invoices) :
             \E p \in {generate_missing_placeholders(g.invoices, {TheBusiness},
                                                     {}, FirstDay, renders)} :
                /\ invoices = p.invoices
                /\ files = p.files
                /\ recurring = g.recurring
                /\ nextInvoiceRow = g.nextRow
    /\ nextRecurringRow = 2
    /\ today = FirstDay
    /\ clock = 0
    /\ calls = 0
    /\ threads = <<>>
    /\ running = TRUE
    /\ dropped = 0
    /\ resp = [op |-> "init", after |-> "init"]

TrashNext ==
    \/ \E type \in {"expense", "income"}, render_ok \in BOOLEAN :
          CreateManual(ManualInput, type, render_ok)
    \/ \E id \in RowIds, ext \in DropExts, result \in Results, conv_ok \in BOOLEAN :
          Upload(id, ext, result, conv_ok)
    \/ \E id \in RowIds : Delete(id)

SpecTrash == TrashInit /\ [][TrashNext]_vars

\* C29: a delete that succeeds removes the record, and removes the artifact
\* file of every record that has one, except a recurrence-generated record
\* whose artifact is still the generated placeholder; the scan uploaded onto
\* a recurrence-generated record is removed
C29_DeleteRemovesRealScan ==
    [][(calls' = calls + 1 /\ resp'.op = "delete" /\ resp'.status = 200)
       => /\ ~HasRow(invoices', resp'.id)
          /\ (/\ RowOf(invoices, resp'.id).file_path # NoPath
              /\ ~(/\ RowOf(invoices, resp'.id).is_recurring_generated
                   /\ RowOf(invoices, resp'.id).is_placeholder_pdf))
             => OnDisk(RowOf(invoices, resp'.id).file_path) \notin files']_vars

\* ---------------------------------------------------------------------------
\* Further properties of failed moves and renames
\* ---------------------------------------------------------------------------

\* the allocator call for the kind, year and business of the record
AllocatorFor(invs, bizs, row) ==
    IF row.invoice_id.kind = "ERE"
    THEN get_next_income_id(invs, bizs, row.invoice_id.year, row.business_id)
    ELSE get_next_invoice_id(invs, bizs, row.invoice_id.year, row.business_id)

\* a full save has just run on a record whose artifact is on disk, in the
\* inbox (the archival moves it) or in the archive (the edit renames it)
SaveMoveAttempt(r, before, fs) ==
    /\ r.op \in SaveOps /\ r.status = 200
    /\ TruthyDate(r.data.date) /\ TruthyAmount(r.data.amount)
    /\ TruthyText(r.data.category)
    /\ PathExists(fs, before.file_path)

\* C31: when the move of the artifact fails in the Watcher's archival or in a
\* full save, or the rename fails in the edit of an archived record, the
\* record holds the date, amount and category the operation saved and an
\* identifier, and the allocator does not hand that identifier out again
C31_FailedMoveRollsNothingBack ==
    [][/\ (WatcherArchiveAttempt(resp') /\ ~resp'.move_ok)
          => LET after == RowOf(invoices', resp'.id)
             IN  /\ after.date = resp'.result.date
                 /\ after.amount = resp'.result.amount
                 /\ after.category = resp'.result.category
                 /\ after.invoice_id # NoId
                 /\ AllocatorFor(invoices', businesses', after) # after.invoice_id
       /\ (resp'.op \in SaveOps /\ HasRow(invoices, resp'.id) /\ ~resp'.move_ok
           /\ SaveMoveAttempt(resp', RowOf(invoices, resp'.id), files))
          => LET after == RowOf(invoices', resp'.id)
             IN  /\ after.date = resp'.data.date
                 /\ after.amount = resp'.data.amount
                 /\ after.category = resp'.data.category
                 /\ after.invoice_id # NoId
                 /\ AllocatorFor(invoices', businesses', after) # after.invoice_id]_vars

\* the move has just failed in a full save of a record from the inbox: the
\* record holds the saved date, amount and category and an identifier, and
\* its file is still in the inbox
C31_Witness ==
    /\ resp.op \in SaveOps /\ resp.status = 200 /\ ~resp.move_ok
    /\ TruthyDate(resp.data.date) /\ TruthyAmount(resp.data.amount)
    /\ TruthyText(resp.data.category)
    /\ \E i \in invoices :
          /\ i.id = resp.id /\ InInbox(i.file_path) /\ i.file_path \in files
          /\ i.date = resp.data.date /\ i.amount = resp.data.amount
          /\ i.category = resp.data.category
          /\ i.invoice_id # NoId

\* ---------------------------------------------------------------------------
\* Further properties of the generator's loop
\* ---------------------------------------------------------------------------

SupportedFrequencies == {"monthly", "quarterly", "yearly"}

\* the while loop of an invocation that runs on the definition in a ledger
LoopOn(rec, invs, bizs, nextRow, now) ==
    WhileLoop(rec, bizs, now, LoopStart(rec, invs, nextRow))

\* the while loop of an invocation that would run now on the definition
LoopNow(rec) == LoopOn(rec, invoices, businesses, nextInvoiceRow, today)

\* C32: after every step the while loop of an invocation on any active
\* definition whose dates parse ends, by a break or at the iteration limit,
\* after at most 1000 iterations, and every request that runs the generator
\* inserts at most one record for a definition whose frequency is none of
\* monthly, quarterly, yearly
C32_LoopEndsWithinLimit ==
    [][/\ \A rec \in recurring' :
             (rec.active /\ ~RaisesOn(rec, today')) =>
                 \A st \in {LoopOn(rec, invoices', businesses',
                                   nextInvoiceRow', today')} :
                     /\ st.iterations <= max_iterations
                     /\ st.brk \/ st.iterations = max_iterations
                     /\ rec.frequency \notin SupportedFrequencies
                           => Len(st.generated) <= 1
       /\ \A rec \in recurring' :
             rec.frequency \notin SupportedFrequencies =>
                 Cardinality({i \in invoices' :
                                 /\ ~HasRow(invoices, i.id)
                                 /\ i.recurring_transaction_id = rec.id}) <= 1]_vars

\* a definition with the frequency "weekly" on which an invocation would run
\* to the iteration limit and insert one record
C32_Witness ==
    \E rec \in recurring :
        /\ rec.active /\ rec.frequency = "weekly" /\ ~RaisesOn(rec, today)
        /\ LoopNow(rec).iterations = max_iterations
        /\ ~LoopNow(rec).brk
        /\ Len(LoopNow(rec).generated) = 1

\* ---------------------------------------------------------------------------
\* Deactivated definitions: the requests of the definitions specification on
\* a ledger that holds a definition whose active flag is off
\* ---------------------------------------------------------------------------

\* the ledger after POST /api/recurring has been served once on FirstDay and
\* PUT /api/recurring/1 has then cleared the active flag
DormantInit ==
    /\ businesses = {TheBusiness}
    /\ nextBusinessRow = 2
    /\ \E data \in {d \in RuleInputs : ParsesDate(d.start_date)
                                       /\ d.end_date = NoDate} :
         \E g \in {generate_recurring_transactions(
                       {}, {RecurringRow(1, data)}, {TheBusiness}, 1, FirstDay)} :
           \E renders \in RenderBudgets(g.invoices) :
             \E p \in {generate_missing_placeholders(g.invoices, {TheBusiness},
                                                     {}, FirstDay, renders)} :
                /\ invoices = p.invoices
                /\ files = p.files
                /\ recurring = {UpdateRecurringRow(r, [field |-> "active",
                                                       date |-> NoDate, day |-> 0])
                                : r \in g.recurring}
                /\ nextInvoiceRow = g.nextRow
    /\ nextRecurringRow = 2
    /\ today = FirstDay
    /\ clock = 0
    /\ calls = 0
    /\ threads = <<>>
    /\ running = TRUE
    /\ dropped = 0
    /\ resp = [op |-> "init", after |-> "init"]

SpecDormant == DormantInit /\ [][RulesNext]_vars

\* C33: an invocation of the generator inserts no record for a definition
\* whose active flag is off and leaves that definition, its checkpoint
\* included, as it was
C33_InactiveNeverGenerated ==
    [][(resp'.op \in {"create_recurring", "generate"} /\ calls' = calls + 1)
       => \A rec \in recurring :
             ~rec.active =>
                 /\ rec \in recurring'
                 /\ \A i \in invoices' :
                       i.recurring_transaction_id = rec.id
                          => HasRow(invoices, i.id)]_vars

\* the generator has run over a definition whose active flag is off and
\* which has an occurrence due that no record stands for
C33_Witness ==
    /\ resp.op = "generate" /\ resp.status = 200
    /\ \E rec \in recurring :
          /\ ~rec.active
          /\ Len(LoopNow(rec).generated) >= 1

\* ---------------------------------------------------------------------------
\* Complete extractions in a Watcher pass
\* ---------------------------------------------------------------------------

\* the extraction has returned a date, an amount and a category; an amount
\* of 0 is an amount
AllThreePresent(result) ==
    /\ result.text # "raise"
    /\ result.date # NoDate
    /\ result.amount # NoAmount
    /\ TruthyText(result.category)

\* C34: a Watcher pass whose extraction returns a date, an amount and a
\* category for an inbox file ends with the record reviewed and archived,
\* holding an identifier, and its artifact under the archive root
C34_CompleteExtractionArchived ==
    [][(resp'.op = "watcher" /\ resp'.extracted /\ AllThreePresent(resp'.result))
       => LET after == RowOf(invoices', resp'.id)
          IN  /\ after.reviewed
              /\ after.is_archived
              /\ after.invoice_id # NoId
              /\ InArchive(after.file_path)
              /\ after.file_path \in files']_vars

\* ---------------------------------------------------------------------------
\* Dates of the records the generator inserts
\* ---------------------------------------------------------------------------

\* C35: every record a generator invocation inserts for a definition has a
\* date not earlier than the definition's start date, not later than the
\* invocation's today, and not later than the end date when one is set
C35_DatesWithinDefinition ==
    [][(resp'.op \in GenOps /\ calls' = calls + 1)
       => \A i \in invoices' :
             (~HasRow(invoices, i.id) /\ i.is_recurring_generated)
                => \A rec \in recurring' :
                      rec.id = i.recurring_transaction_id
                         => /\ rec.start_date <= i.date
                            /\ i.date <= today
                            /\ rec.end_date # NoDate => i.date <= rec.end_date]_vars

\* ---------------------------------------------------------------------------
\* Crash specification: one request runs the generator statement by
\* statement and the process may die at any statement; a second request
\* runs the generator again after the restart
\* ---------------------------------------------------------------------------

\* the request that is served first, and the one served after the restart
FirstRun == CHOOSE t \in Callers : \A u \in Callers : t <= u
Rerun == FirstRun + 1

\* the statements of a request between its arrival and its response
InFlight == {"select", "rec", "iter", "alloc", "insert", "checkpoint", "finish"}

\* the statements of the pass over one definition that come before the
\* write of last_generated_date
BeforeCheckpointWrite == {"iter", "alloc", "insert", "checkpoint"}

\* the process dies: the request's local state is lost, the database keeps
\* what has been committed
Crash(t) ==
    /\ threads[t].pc \in InFlight
    /\ threads' = [threads EXCEPT ![t] = [@ EXCEPT !.pc = "crashed"]]
    /\ UNCHANGED <<dropped, running, businesses, nextBusinessRow, invoices, recurring,
                   files, nextInvoiceRow, nextRecurringRow, today, clock, calls, resp>>

\* POST /api/recurring/generate after the first request has ended
CallAgain ==
    /\ threads[FirstRun].pc \in {"done", "crashed"}
    /\ CallGenerate(Rerun)

CrashNext ==
    \/ \E data \in ConcInputs : CallCreate(FirstRun, data)
    \/ CallAgain
    \/ Crash(FirstRun)
    \/ \E t \in Callers :
          \/ SelectActive(t)
          \/ NextRec(t)
          \/ IterCheck(t)
          \/ AllocateVirtual(t)
          \/ InsertVirtual(t)
          \/ StoreCheckpoint(t)
          \/ Finish(t)

SpecCrash == ConcInit /\ [][CrashNext]_vars

\* the stored last_generated_date of a definition
CheckpointOf(recs, recurring_id) ==
    (CHOOSE r \in recs : r.id = recurring_id).last_generated_date

\* C36: last_generated_date of a definition is written by a request that
\* has left the loop over that definition with every insert committed, and
\* records of the definition are inserted only while that write is still to
\* come; a crash before the write leaves last_generated_date at the value
\* the pass started from; and no two records of a definition have the same
\* date, also after the generator has run again
C36_CheckpointAfterInserts ==
    [][/\ \A r \in recurring :
             (\E r2 \in recurring' : /\ r2.id = r.id
                                     /\ r2.last_generated_date # r.last_generated_date)
                => \E t \in Callers :
                      /\ threads[t].pc = "checkpoint"
                      /\ threads[t].rec.id = r.id
                      /\ threads[t].row = NoRow
                      /\ \A k \in 1..Len(threads[t].generated_ids) :
                            HasRow(invoices, threads[t].generated_ids[k])
       /\ \A i \in invoices' :
             (~HasRow(invoices, i.id) /\ i.is_recurring_generated)
                => \E t \in Callers :
                      /\ threads[t].pc = "insert"
                      /\ threads[t].rec.id = i.recurring_transaction_id
                      /\ threads[t].snapshot # <<>>
                      /\ Head(threads[t].snapshot).id = i.recurring_transaction_id
       /\ \A t \in Callers :
             (threads'[t].pc = "crashed" /\ threads[t].pc \in BeforeCheckpointWrite)
                => CheckpointOf(recurring', threads[t].rec.id)
                      = threads[t].rec.last_generated_date
       /\ \A i, j \in invoices' :
             (/\ i.is_recurring_generated /\ j.is_recurring_generated
              /\ i.recurring_transaction_id = j.recurring_transaction_id
              /\ i.date = j.date)
                => i.id = j.id]_vars

\* the first request died after it had inserted a record and before it
\* wrote last_generated_date, and the second request has run the generator
\* to its end and inserted the records that were still missing
C36_Witness ==
    /\ threads[FirstRun].pc = "crashed"
    /\ threads[FirstRun].generated_ids # <<>>
    /\ threads[FirstRun].snapshot # <<>>
    /\ threads[Rerun].pc = "done"
    /\ threads[Rerun].generated_ids # <<>>
    /\ \A r \in recurring : r.last_generated_date # NoDate

\* ---------------------------------------------------------------------------
\* Reuse of identifiers
\* ---------------------------------------------------------------------------

\* C37: an identifier that a record holds before a step is not what the
\* allocator returns after the step, whatever the step has done to that
\* record (deleted it, given it another identifier, or left it alone)
C37_IdentifierNeverReissued ==
    [][\A i \in invoices :
          i.invoice_id # NoId
             => AllocatorFor(invoices', businesses', i) # i.invoice_id]_vars

\* ---------------------------------------------------------------------------
\* Number of worker loops
\* ---------------------------------------------------------------------------

\* the worker threads that are inside _process_inbox_files
Scanning == {t \in DOMAIN threads : t # MainThread /\ threads[t].pc = "pass"}

\* C38: whatever start() and stop() calls have been made, at most one worker
\* loop is scanning the inboxes
C38_OneWorkerScanning == Cardinality(Scanning) <= 1

\* ---------------------------------------------------------------------------
\* Business references after a delete
\* ---------------------------------------------------------------------------

\* C39: after a delete_business call that succeeds, every record and every
\* recurring definition with a business reference refers to a business that
\* exists
C39_NoDanglingBusiness ==
    [][(DeleteStep /\ resp'.status = 200)
       => /\ \A i \in invoices' :
                i.business_id # NoBusiness
                   => \E b \in businesses' : b.id = i.business_id
          /\ \A r \in recurring' :
                r.business_id # NoBusiness
                   => \E b \in businesses' : b.id = r.business_id]_vars

\* ---------------------------------------------------------------------------
\* Extraction runs and reviewed records
\* ---------------------------------------------------------------------------

\* the requests and the pass that run the extraction
ExtractionOps == {"watcher", "process", "upload"}

\* C40: a Watcher pass, a process request or an upload leaves the date, the
\* amount, the category and the description of every record that is
\* reviewed or archived as they are
C40_ExtractionKeepsReviewed ==
    [][resp'.op \in ExtractionOps
       => \A i \in invoices :
             ((i.reviewed \/ i.is_archived) /\ HasRow(invoices', i.id))
                => LET after == RowOf(invoices', i.id)
                   IN  /\ after.date = i.date
                       /\ after.amount = i.amount
                       /\ after.category = i.category
                       /\ after.description = i.description]_vars

=============================================================================
